---------------------------- MODULE Spec2Model ----------------------------
(***************************************************************************)
(* A model of the Google Trends retrieval engine of scripts/:              *)
(*   google_trends_client.py  the Protocol Client (GoogleTrendsClient)     *)
(*   playwright_fetcher.py    the Browser Fetcher (PlaywrightTrendsFetcher)*)
(*   trends_api.py            the Orchestrator (TrendsAPI)                 *)
(*                                                                         *)
(* Text is modelled as a sequence of characters (one-character strings).   *)
(* A JSON document that a response carries is one "document character":    *)
(* a longer string such as "DOC_DAILY" that stands for the whole text of   *)
(* that document; JsonLoads maps it to the value json.loads returns.       *)
(***************************************************************************)
EXTENDS Integers, Sequences, FiniteSets, TLC

VARIABLES
    arg,    \* the input of the pure function under study
    ret,    \* what the function has produced so far
    now,                    \* time.time(), in ticks
    last_request_time,      \* GoogleTrendsClient._last_request_time, in ticks
    sent,                   \* the requests the most recent call put on the wire
    call,                   \* the most recent call: operation and arguments
    before,                 \* the limiter and the wire as that call found them
    outcome,                \* what the Protocol Client returned or raised
    config,                 \* TrendsAPI.config: the fallback policy
    api_client,             \* TrendsAPI._api_client: the client, its config
    playwright_fetcher,     \* TrendsAPI._playwright_fetcher
    playwright_initialized, \* TrendsAPI._playwright_initialized
    fetcher_log,            \* what the most recent call did with the Fetcher
    result,                 \* what the Orchestrator returned or raised
    loop,                   \* the asyncio event loops: the coroutines on the
                            \* running one, the one that owns the Fetcher
    fetcher,                \* the fields of the PlaywrightTrendsFetcher object
    pending,                \* responses whose callback has not run yet
    browser_log,            \* what the Fetcher did with the browser
    fetched                 \* the Fetcher's most recent operation and its end

pure_vars == <<arg, ret>>

client_vars == <<now, last_request_time, sent, call, before, outcome>>

orchestrator_vars ==
    <<config, api_client, playwright_fetcher, playwright_initialized,
      fetcher_log, result, loop>>

fetcher_vars == <<fetcher, pending, browser_log, fetched>>

engine_vars == <<client_vars, orchestrator_vars, fetcher_vars>>

vars ==
    <<arg, ret, now, last_request_time, sent, call, before, outcome,
      config, api_client, playwright_fetcher, playwright_initialized,
      fetcher_log, result, loop, fetcher, pending, browser_log, fetched>>

\* no coroutine is on an event loop, no loop owns a Fetcher, and the last
\* call used no Fetcher
NoLoop == [tasks |-> <<>>, owner |-> "none", used |-> "none"]

\* no call yet
NoCall == [op |-> "none", keywords |-> <<>>, resolution |-> ""]
NoOutcome == [error |-> "", value |-> <<>>]

\* TrendsAPI.__init__: the first GoogleTrendsClient, with the geo of the
\* default TrendsAPIConfig, no proxy and an open connection
NewApiClient ==
    [id |-> 1, geo |-> "US", proxy |-> "None", closed |-> FALSE]

\* PlaywrightTrendsFetcher.__init__: no browser yet, no bucket; the flag
\* _session_warmed_up is not an attribute until _setup has ended
NewFetcher ==
    [playwright |-> "None", browser |-> "None", context |-> "None",
     page |-> "None", session_warmed_up |-> "unset", intercepted_data |-> <<>>]

\* the Fetcher has done nothing yet
NoFetched ==
    [op |-> "none", n |-> 0, keywords |-> <<>>, error |-> "", value |-> "",
     found |-> NewFetcher, read |-> {}, raising |-> {}, log |-> <<>>]

\* a Fetcher just constructed (or none), and no browser
NoBrowser ==
    /\ fetcher = NewFetcher /\ pending = {}
    /\ browser_log = <<>> /\ fetched = NoFetched

\* no Protocol Client and no Orchestrator
NoApi ==
    /\ now = 0 /\ last_request_time = 0 /\ sent = <<>>
    /\ call = NoCall /\ before = [last_request_time |-> 0, sent_at |-> -1]
    /\ outcome = NoOutcome
    /\ config = [use_fallback |-> FALSE, fallback_on_rate_limit |-> FALSE,
                 fallback_on_token_error |-> FALSE]
    /\ api_client = NewApiClient
    /\ playwright_fetcher = "None" /\ playwright_initialized = FALSE
    /\ fetcher_log = <<>> /\ result = NoOutcome /\ loop = NoLoop

\* the specifications of the pure functions have no engine
NoEngine ==
    NoApi /\ NoBrowser

\* the specifications of the engine study no pure function
NoPure ==
    arg = <<>> /\ ret = <<>>

----------------------------------------------------------------------------
(* Text helpers: the Python str operations the sources use.                *)

\* s.startswith(p)
StartsWith(s, p) ==
    /\ Len(s) >= Len(p)
    /\ \A i \in 1..Len(p) : s[i] = p[i]

\* s[n:]
Drop(s, n) ==
    IF n >= Len(s) THEN <<>> ELSE SubSeq(s, n + 1, Len(s))

RECURSIVE Concat(_)
\* "".join(parts)
Concat(parts) ==
    IF parts = <<>> THEN <<>> ELSE Head(parts) \o Concat(Tail(parts))

\* every sequence over S of length at most n
SeqsUpTo(S, n) ==
    UNION {[1..k -> S] : k \in 0..n}

\* the marker  )]}'
XssiMarker ==
    <<")", "]", "}", "'">>

\* the marker followed by a newline: the variant google sends
PrefixQuoteNewline ==
    XssiMarker \o <<"\n">>

\* the variant without the apostrophe
PrefixNewline ==
    <<")", "]", "}", "\n">>

----------------------------------------------------------------------------
(* Anti-prefix stripping.                                                  *)

\* GoogleTrendsClient._parse_response, the stripping part:
\* text[5:] after the marker, text[4:] after the variant without apostrophe.
ClientStrip(text) ==
    IF StartsWith(text, XssiMarker) THEN Drop(text, 5)
    ELSE IF StartsWith(text, PrefixNewline) THEN Drop(text, 4)
    ELSE text

\* PlaywrightTrendsFetcher._handle_response, the stripping part: only the
\* marker with the apostrophe is looked for.
FetcherStrip(body) ==
    IF StartsWith(body, XssiMarker) THEN Drop(body, 5) ELSE body

----------------------------------------------------------------------------
(* SpecStrip: the two strippers applied, once or twice, to bounded bodies. *)

MaxPieces == 3
MaxStrips == 2

\* what a body is assembled from: the two prefix variants, a JSON payload
\* and a payload that is no JSON
StripPieces ==
    {PrefixQuoteNewline, PrefixNewline, <<"{", "}">>, <<"x">>}

StripBodies ==
    {Concat(ps) : ps \in SeqsUpTo(StripPieces, MaxPieces)}

InitStrip ==
    /\ NoEngine
    /\ arg \in StripBodies
    /\ ret = [by |-> "none", n |-> 0, once |-> arg, text |-> arg]

\* the Protocol Client strips the text it holds
ClientStripStep ==
    /\ ret.by \in {"none", "client"}
    /\ ret.n < MaxStrips
    /\ ret' = [by |-> "client", n |-> ret.n + 1,
               once |-> IF ret.n = 0 THEN ClientStrip(ret.text) ELSE ret.once,
               text |-> ClientStrip(ret.text)]
    /\ UNCHANGED <<arg, engine_vars>>

\* the Browser Fetcher strips the text it holds
FetcherStripStep ==
    /\ ret.by \in {"none", "fetcher"}
    /\ ret.n < MaxStrips
    /\ ret' = [by |-> "fetcher", n |-> ret.n + 1,
               once |-> IF ret.n = 0 THEN FetcherStrip(ret.text) ELSE ret.once,
               text |-> FetcherStrip(ret.text)]
    /\ UNCHANGED <<arg, engine_vars>>

NextStrip ==
    \/ ClientStripStep
    \/ FetcherStripStep

SpecStrip == InitStrip /\ [][NextStrip]_vars

\* C7 (as stated): stripping is idempotent, a body that starts with neither
\* variant comes back unchanged, and both components remove exactly a
\* variant of the prefix (marker and line terminator) and nothing else.
C7_StripIdempotentBothVariants ==
    /\ ret.n = 2 => ret.text = ret.once
    /\ (ret.n >= 1 /\ ~StartsWith(arg, PrefixQuoteNewline)
                   /\ ~StartsWith(arg, PrefixNewline)) => ret.once = arg
    /\ (ret.n >= 1 /\ StartsWith(arg, PrefixQuoteNewline)) => ret.once = Drop(arg, 5)
    /\ (ret.n >= 1 /\ StartsWith(arg, PrefixNewline)) => ret.once = Drop(arg, 4)

----------------------------------------------------------------------------
(* SpecToken: TokenInfo, created at some clock reading and asked later     *)
(* whether it is expired.  The clock counts seconds.                       *)

\* TokenInfo.expires_at default: time.time() + 3600
TokenLifetime == 3600

MaxStartTime == 2
MaxClockSlack == 3

\* the clock readings of SpecToken: the first seconds, and the seconds
\* around one lifetime later
TokenTimes ==
    (0..(MaxStartTime + MaxClockSlack))
        \cup {TokenLifetime + k : k \in (0 - 1)..(MaxStartTime + MaxClockSlack)}

\* the value an explicit expires_at argument is given, when one is given
ExplicitExpiry(t) ==
    t + 1

\* TokenInfo.is_expired, with a wrong comparison
IsExpiredAtOrAfter(expires_at, t) ==
    t >= expires_at

\* TokenInfo.is_expired: time.time() > self.expires_at
IsExpired(expires_at, t) ==
    t > expires_at

\* TokenInfo(...).expires_at: the field's default_factory unless given
ExpiresAt(t, explicit) ==
    IF explicit THEN ExplicitExpiry(t) ELSE t + TokenLifetime

InitToken ==
    /\ NoEngine
    /\ arg \in [now : 0..MaxStartTime]
    /\ ret = [created |-> FALSE, explicit |-> FALSE, created_at |-> 0,
              expires_at |-> 0, read |-> FALSE, read_at |-> 0,
              is_expired |-> FALSE]

\* TokenInfo(token=..., request_data=...) or TokenInfo(..., expires_at=...)
TokenCreate(explicit) ==
    /\ ~ret.created
    /\ ret' = [ret EXCEPT !.created = TRUE, !.explicit = explicit,
                          !.created_at = arg.now,
                          !.expires_at = ExpiresAt(arg.now, explicit)]
    /\ UNCHANGED <<arg, engine_vars>>

\* time passes: the clock moves on to a later reading t
TokenClockAdvance(t) ==
    /\ t > arg.now
    /\ arg' = [arg EXCEPT !.now = t]
    /\ UNCHANGED <<ret, engine_vars>>

\* token.is_expired is read
TokenReadIsExpired ==
    /\ ret.created
    /\ ret' = [ret EXCEPT !.read = TRUE, !.read_at = arg.now,
                          !.is_expired = IsExpired(ret.expires_at, arg.now)]
    /\ UNCHANGED <<arg, engine_vars>>

NextToken ==
    \/ \E explicit \in BOOLEAN : TokenCreate(explicit)
    \/ \E t \in TokenTimes : TokenClockAdvance(t)
    \/ TokenReadIsExpired

SpecToken == InitToken /\ [][NextToken]_vars

\* C5: a token created at T without an explicit expiry has
\* expires_at = T + 3600, reads is_expired = FALSE at every t <= T + 3600
\* and is_expired = TRUE at every t > T + 3600.
C5_TokenExpiry ==
    (ret.created /\ ~ret.explicit) =>
        /\ ret.expires_at = ret.created_at + 3600
        /\ ret.read => (ret.is_expired <=> ret.read_at > ret.created_at + 3600)

\* a default token read exactly at T + 3600 (not expired), the boundary
C5_WitnessBoundary ==
    /\ ret.created /\ ~ret.explicit /\ ret.read
    /\ ret.read_at = ret.created_at + 3600
    /\ ~ret.is_expired

----------------------------------------------------------------------------
(* Python dicts, as the insertion-ordered list of their <<key, value>>      *)
(* items; json.dumps writes the items in that order.                        *)

DictKeys(d) ==
    {d[i][1] : i \in 1..Len(d)}

\* key in d
DictHas(d, k) ==
    k \in DictKeys(d)

\* d[k], for a key of d
DictAt(d, k) ==
    d[CHOOSE i \in 1..Len(d) : d[i][1] = k][2]

\* d.get(k, default)
DictGet(d, k, default) ==
    IF DictHas(d, k) THEN DictAt(d, k) ELSE default

\* del d[k]
DictDel(d, k) ==
    SelectSeq(d, LAMBDA item : item[1] # k)

\* d[k] = v: an existing key keeps its place, a new key goes last
DictSet(d, k, v) ==
    IF DictHas(d, k)
    THEN [i \in 1..Len(d) |-> IF d[i][1] = k THEN <<k, v>> ELSE d[i]]
    ELSE Append(d, <<k, v>>)

RECURSIVE JsonDumpsItems(_)
JsonDumpsItems(d) ==
    IF d = <<>> THEN <<>>
    ELSE <<d[1][1], ":", d[1][2]>>
            \o (IF Len(d) > 1 THEN <<",">> ELSE <<>>)
            \o JsonDumpsItems(Tail(d))

\* json.dumps(d) of a dict of strings: { key : value , ... } as text
JsonDumps(d) ==
    <<"{">> \o JsonDumpsItems(d) \o <<"}">>

----------------------------------------------------------------------------
(* Building the data request of a token-gated operation.                   *)

\* what _clean_request_data leaves in its argument: it works on
\* request_data.copy(), so the argument keeps every item
ArgumentAfterClean(request_data) ==
    request_data

\* the echoed request sent back with its userConfig
KeepUserConfig(request_data) ==
    request_data

\* GoogleTrendsClient._clean_request_data: a copy without "userConfig"
CleanRequestData(request_data) ==
    IF DictHas(request_data, "userConfig")
    THEN DictDel(request_data, "userConfig")
    ELSE request_data

\* the resolution written under the wrong key
InjectResolutionAsGeo(request_data, resolution) ==
    DictSet(request_data, "geo", resolution)

\* get_interest_by_region: request_data["resolution"] = resolution
InjectResolution(request_data, resolution) ==
    DictSet(request_data, "resolution", resolution)

\* TrendsConfig defaults, as the Orchestrator passes them
ConfigHl == "en-US"
ConfigTz == "-480"

\* the params of a data request: hl, tz, req and token
DataParams(request_data, token) ==
    <<<<"hl", ConfigHl>>, <<"tz", ConfigTz>>,
      <<"req", JsonDumps(request_data)>>, <<"token", token>>>>

\* get_interest_by_region: the request body it builds from the token found
RegionRequestData(token_info, resolution) ==
    InjectResolution(CleanRequestData(token_info.request_data), resolution)

\* get_interest_by_region: the params it sends
RegionParams(token_info, resolution) ==
    DataParams(RegionRequestData(token_info, resolution), token_info.token)

Resolutions ==
    {"COUNTRY", "REGION", "CITY", "DMA"}

----------------------------------------------------------------------------
(* SpecRegion: the comparedgeo request built, for one token response, with  *)
(* each resolution.                                                        *)

\* the items an echoed request may hold besides geo and comparisonItem
OptionalItems(res, locale, user) ==
    (IF res = "" THEN <<>> ELSE <<<<"resolution", res>>>>)
        \o (IF locale THEN <<<<"locale", "en-US">>>> ELSE <<>>)
        \o (IF user THEN <<<<"userConfig", "USER_TYPE_SCRAPER">>>> ELSE <<>>)

\* the "request" objects a GEO_MAP widget may echo
EchoedRequests ==
    {<<<<"geo", "US">>, <<"comparisonItem", "kw/today 12-m">>>>
        \o OptionalItems(res, locale, user) :
            res \in {"", "COUNTRY", "REGION"}, locale \in BOOLEAN, user \in BOOLEAN}

NotBuilt ==
    [built |-> FALSE, request_data |-> <<>>, params |-> <<>>]

InitRegion ==
    /\ NoEngine
    /\ \E e \in EchoedRequests :
          arg = [token |-> "tokGEO", echoed |-> e, request_data |-> e]
    /\ ret = [r \in Resolutions |-> NotBuilt]

\* get_interest_by_region(resolution), from the GEO_MAP token to the params
BuildRegionRequest(resolution) ==
    /\ ~ret[resolution].built
    /\ ret' = [ret EXCEPT ![resolution] =
                  [built |-> TRUE,
                   request_data |-> RegionRequestData(arg, resolution),
                   params |-> RegionParams(arg, resolution)]]
    /\ arg' = [arg EXCEPT !.request_data = ArgumentAfterClean(arg.request_data)]
    /\ UNCHANGED engine_vars

NextRegion ==
    \E resolution \in Resolutions : BuildRegionRequest(resolution)

SpecRegion == InitRegion /\ [][NextRegion]_vars

\* the keys of a dict in their order
KeyOrder(d) ==
    [i \in 1..Len(d) |-> d[i][1]]

\* requests a and b, built with resolutions r1 and r2, differ in the
\* resolution field only
OnlyResolutionDiffers(a, r1, b, r2) ==
    /\ KeyOrder(a.request_data) = KeyOrder(b.request_data)
    /\ DictHas(a.request_data, "resolution")
    /\ DictAt(a.request_data, "resolution") = r1
    /\ DictAt(b.request_data, "resolution") = r2
    /\ \A k \in DictKeys(a.request_data) \ {"resolution"} :
          DictAt(a.request_data, k) = DictAt(b.request_data, k)
    /\ Len(a.params) = Len(b.params)
    /\ \A i \in 1..Len(a.params) :
          /\ a.params[i][1] = b.params[i][1]
          /\ a.params[i][1] # "req" => a.params[i] = b.params[i]
          /\ a.params[i][1] = "req" => a.params[i][2] = JsonDumps(a.request_data)

\* C6: for one token response the requests built with two resolutions (CITY
\* and COUNTRY among them) differ only in the resolution field of the body;
\* every other echoed field is carried over unchanged, and the echoed
\* request stored in the token is not modified.
C6_RegionOnlyResolution ==
    /\ arg.request_data = arg.echoed
    /\ \A r1, r2 \in Resolutions :
          (ret[r1].built /\ ret[r2].built) =>
              /\ OnlyResolutionDiffers(ret[r1], r1, ret[r2], r2)
              /\ \A k \in DictKeys(arg.echoed) \ {"resolution", "userConfig"} :
                    /\ DictHas(ret[r1].request_data, k)
                    /\ DictAt(ret[r1].request_data, k) = DictAt(arg.echoed, k)

\* both the CITY and the COUNTRY request built from an echoed request that
\* holds a resolution and a userConfig
C6_WitnessCityAndCountry ==
    /\ ret["CITY"].built /\ ret["COUNTRY"].built
    /\ DictHas(arg.echoed, "userConfig")
    /\ DictHas(arg.echoed, "resolution")

----------------------------------------------------------------------------
(* Multiplexed-RPC (batchexecute) decoding.  In the text of a chunk a       *)
(* quoted JSON string ("formattedTime", "Jan 1") and a number (12, 50) are  *)
(* one character each.                                                      *)

KeyTimelineData == "\"timelineData\""
KeyFormattedTime == "\"formattedTime\""
KeyValue == "\"value\""

\* the quoted strings of the texts, and what stands between their quotes
Unquote ==
    [t \in {KeyTimelineData, KeyFormattedTime, KeyValue, "\"Jan 1\"", "\"Jan 2\""} |->
        CASE t = KeyTimelineData -> "timelineData"
          [] t = KeyFormattedTime -> "formattedTime"
          [] t = KeyValue -> "value"
          [] t = "\"Jan 1\"" -> "Jan 1"
          [] t = "\"Jan 2\"" -> "Jan 2"]

QuotedTokens ==
    DOMAIN Unquote

\* the numbers of the texts: int(text)
IntOf ==
    [t \in {"7", "12", "50"} |->
        CASE t = "7" -> 7 [] t = "12" -> 12 [] t = "50" -> 50]

NumberTokens ==
    DOMAIN IntOf

Min(S) ==
    CHOOSE x \in S : \A y \in S : x <= y

\* the regex class \s
IsSpace(c) ==
    c \in {"\n", " "}

RECURSIVE SkipSpace(_, _)
\* where \s* starting at i stops: the first index from i on that holds no
\* white space (Len(s) + 1 when there is none)
SkipSpace(s, i) ==
    IF i <= Len(s) /\ IsSpace(s[i]) THEN SkipSpace(s, i + 1) ELSE i

\* the index where "key" \s* : \s* leaves off when it matches at i, else 0
AfterKeyColon(s, i, key) ==
    IF i > Len(s) \/ s[i] # key THEN 0
    ELSE LET c == SkipSpace(s, i + 1)
         IN  IF c > Len(s) \/ s[c] # ":" THEN 0 ELSE SkipSpace(s, c + 1)

\* "timelineData" in response_body
HasTimelineData(s) ==
    \E i \in 1..Len(s) : s[i] = KeyTimelineData

\* for "timelineData"\s*:\s*(\[[\s\S]*?\])\s*[,}] matched at i: the indexes
\* of the brackets that can close the group
GroupClosers(s, i) ==
    LET open == AfterKeyColon(s, i, KeyTimelineData)
    IN  IF open = 0 \/ open > Len(s) \/ s[open] # "[" THEN {}
        ELSE {k \in (open + 1)..Len(s) :
                /\ s[k] = "]"
                /\ LET m == SkipSpace(s, k + 1)
                   IN  m <= Len(s) /\ s[m] \in {",", "}"}}

\* re.search of that pattern: the group of the leftmost match, the shortest
\* one there (the *? is lazy); found = FALSE when nothing matches
TimelineMatch(s) ==
    LET starts == {i \in 1..Len(s) : GroupClosers(s, i) # {}}
    IN  IF starts = {} THEN [found |-> FALSE, group |-> <<>>]
        ELSE LET i == Min(starts)
             IN  [found |-> TRUE,
                  group |-> SubSeq(s, AfterKeyColon(s, i, KeyTimelineData),
                                   Min(GroupClosers(s, i)))]

\* re.findall(r'"value"\s*:\s*\[(\d+)\]'): the captured digits, in order
ValueMatches(s) ==
    LET hit(i) == LET o == AfterKeyColon(s, i, KeyValue)
                  IN  /\ o # 0
                      /\ o + 2 <= Len(s)
                      /\ s[o] = "["
                      /\ s[o + 1] \in NumberTokens
                      /\ s[o + 2] = "]"
        idx == SelectSeq([i \in 1..Len(s) |-> i], hit)
    IN  [n \in 1..Len(idx) |-> s[AfterKeyColon(s, idx[n], KeyValue) + 1]]

\* re.findall(r'"formattedTime"\s*:\s*"([^"]+)"'): the captured labels
TimeMatches(s) ==
    LET hit(i) == LET o == AfterKeyColon(s, i, KeyFormattedTime)
                  IN  o # 0 /\ o <= Len(s) /\ s[o] \in QuotedTokens
        idx == SelectSeq([i \in 1..Len(s) |-> i], hit)
    IN  [n \in 1..Len(idx) |-> Unquote[s[AfterKeyColon(s, idx[n], KeyFormattedTime)]]]

MaxPoints == 2
MaxChunks == 1

\* "label" for a label
Quote(label) ==
    CHOOSE t \in QuotedTokens : Unquote[t] = label

\* the digits of a number of the texts
NumberText(n) ==
    CHOOSE t \in NumberTokens : IntOf[t] = n

RECURSIVE JoinWith(_, _)
\* sep.join(parts)
JoinWith(parts, sep) ==
    IF parts = <<>> THEN <<>>
    ELSE IF Len(parts) = 1 THEN parts[1]
    ELSE parts[1] \o <<sep>> \o JoinWith(Tail(parts), sep)

\* a timeline point as JSON text: {"formattedTime":"Jan 1","value":[50]},
\* either member left out when the point has none
RenderPoint(p) ==
    <<"{">>
        \o JoinWith(
              (IF p.time = "" THEN <<>>
               ELSE <<<<KeyFormattedTime, ":", Quote(p.time)>>>>)
              \o (IF ~p.has_value THEN <<>>
                  ELSE <<<<KeyValue, ":", "[">>
                          \o JoinWith([i \in 1..Len(p.value) |-> <<NumberText(p.value[i])>>], ",")
                          \o <<"]">>>>),
              ",")
        \o <<"}">>

\* a list of timeline points as JSON text
RenderTimeline(points) ==
    <<"[">> \o JoinWith([i \in 1..Len(points) |-> RenderPoint(points[i])], ",") \o <<"]">>

\* the timeline points JSON texts of this size can denote
TimelinePoints ==
    {[time |-> t, has_value |-> TRUE, value |-> v] :
        t \in {"", "Jan 1", "Jan 2"}, v \in {<<>>, <<50>>, <<7>>, <<50, 7>>}}
    \cup {[time |-> t, has_value |-> FALSE, value |-> <<>>] : t \in {"", "Jan 1", "Jan 2"}}

TimelineValues ==
    SeqsUpTo(TimelinePoints, MaxPoints)

\* json.loads(timeline_str): the list the text denotes, or JSONDecodeError
\* when it is the text of none
JsonLoadsTimeline(text) ==
    IF \E v \in TimelineValues : RenderTimeline(v) = text
    THEN [ok |-> TRUE, value |-> CHOOSE v \in TimelineValues : RenderTimeline(v) = text]
    ELSE [ok |-> FALSE, value |-> <<>>]

\* any(results.values())
AnyPoints(results) ==
    \E kw \in DOMAIN results : results[kw] # <<>>

\* InterestDataPoint(date, value, formatted_value="")
InterestDataPoint(date, value) ==
    [date |-> date, value |-> value, formatted_value |-> ""]

RECURSIVE AppendTimeline(_, _, _)
\* the loop over timeline_data: keyword number i gets values[i] of each
\* point that has that many values
AppendTimeline(results, points, keywords) ==
    IF points = <<>> THEN results
    ELSE LET p == points[1]
             added == [kw \in DOMAIN results |->
                          LET i == CHOOSE n \in 1..Len(keywords) : keywords[n] = kw
                          IN  IF i <= Len(p.value)
                              THEN Append(results[kw], InterestDataPoint(p.time, p.value[i]))
                              ELSE results[kw]]
         IN  AppendTimeline(added, Tail(points), keywords)

RECURSIVE AppendPairs(_, _, _)
\* the loop over zip(time_matches, value_matches): every keyword gets every
\* pair
AppendPairs(results, times, values) ==
    IF times = <<>> \/ values = <<>> THEN results
    ELSE AppendPairs(
            [kw \in DOMAIN results |->
                Append(results[kw], InterestDataPoint(times[1], IntOf[values[1]]))],
            Tail(times), Tail(values))

\* _parse_batchexecute_timeline, one turn of its loop: the results after the
\* chunk, and whether the function returned from inside the turn
ParseChunk(response_body, results, keywords) ==
    LET body == FetcherStrip(response_body)
    IN  IF ~HasTimelineData(body) THEN [results |-> results, returned |-> FALSE]
        ELSE
        LET m == TimelineMatch(body)
            loaded == IF m.found THEN JsonLoadsTimeline(m.group)
                      ELSE [ok |-> FALSE, value |-> <<>>]
            r1 == IF loaded.ok THEN AppendTimeline(results, loaded.value, keywords)
                  ELSE results
        IN  IF loaded.ok /\ AnyPoints(r1) THEN [results |-> r1, returned |-> TRUE]
            ELSE
            LET vm == ValueMatches(body)
                tm == TimeMatches(body)
                paired == vm # <<>> /\ tm # <<>> /\ Len(vm) = Len(tm)
                r2 == IF paired THEN AppendPairs(r1, tm, vm) ELSE r1
            IN  [results |-> r2, returned |-> paired /\ AnyPoints(r2)]

RECURSIVE ParseChunks(_, _, _)
ParseChunks(chunks, results, keywords) ==
    IF chunks = <<>> THEN results
    ELSE LET turn == ParseChunk(chunks[1], results, keywords)
         IN  IF turn.returned THEN turn.results
             ELSE ParseChunks(Tail(chunks), turn.results, keywords)

\* PlaywrightTrendsFetcher._parse_batchexecute_timeline(keywords) over the
\* chunks of the batchexecute bucket
ParseBatchexecuteTimeline(chunks, keywords) ==
    ParseChunks(chunks, [kw \in {keywords[i] : i \in 1..Len(keywords)} |-> <<>>], keywords)

----------------------------------------------------------------------------
(* SpecDecode: the decoder applied to bounded batchexecute buckets.        *)

\* the points the service sends in these chunks
ChunkPoints ==
    {[time |-> "Jan 1", has_value |-> TRUE, value |-> <<50>>],
     [time |-> "Jan 2", has_value |-> TRUE, value |-> <<7>>],
     [time |-> "Jan 1", has_value |-> FALSE, value |-> <<>>]}

\* the JSON line of a chunk: the bare array of points, the array under the
\* key "timelineData", or no JSON at all
ChunkPayloads ==
    {RenderTimeline(pts) : pts \in SeqsUpTo(ChunkPoints, MaxPoints)}
    \cup {<<"{", KeyTimelineData, ":">> \o RenderTimeline(pts) \o <<"}">> :
            pts \in SeqsUpTo(ChunkPoints, MaxPoints)}
    \cup {<<"x">>}

\* a chunk: the prefix or none, the length line or none, the JSON line
ChunkBodies ==
    {prefix \o len \o payload \o <<"\n">> :
        prefix \in {<<>>, PrefixQuoteNewline},
        len \in {<<>>, <<"12", "\n">>},
        payload \in ChunkPayloads}

\* the payload of the spec's example:
\*   )]}'\n12\n[{"formattedTime":"Jan 1","value":[50]}]\n
ExampleChunk ==
    PrefixQuoteNewline \o <<"12", "\n">>
        \o <<"[", "{", KeyFormattedTime, ":", "\"Jan 1\"", ",", KeyValue, ":",
             "[", "50", "]", "}", "]">>
        \o <<"\n">>

InitDecode ==
    /\ NoEngine
    /\ arg \in [chunks : {c \in SeqsUpTo(ChunkBodies, MaxChunks) : c # <<>>},
                keywords : {<<"k1">>, <<"k1", "k2">>}]
    /\ ret = [done |-> FALSE, results |-> <<>>]

\* get_interest_over_time, method 2: the bucket is decoded
DecodeBucket ==
    /\ ~ret.done
    /\ ret' = [done |-> TRUE,
               results |-> ParseBatchexecuteTimeline(arg.chunks, arg.keywords)]
    /\ UNCHANGED <<arg, engine_vars>>

NextDecode ==
    DecodeBucket

SpecDecode == InitDecode /\ [][NextDecode]_vars

\* C8 (as stated): the example chunk, decoded for one keyword, yields
\* exactly one interest point, with date "Jan 1" and value 50.
C8_ExampleChunkYieldsOnePoint ==
    (ret.done /\ arg.chunks = <<ExampleChunk>> /\ arg.keywords = <<"k1">>) =>
        /\ Len(ret.results["k1"]) = 1
        /\ ret.results["k1"][1].date = "Jan 1"
        /\ ret.results["k1"][1].value = 50

----------------------------------------------------------------------------
(* The Protocol Client (GoogleTrendsClient): clock, rate limiter, HTTP.    *)

\* the resolution of the clock: ticks in a second
TicksPerSecond == 2
\* the clock stops at MaxTime ticks
MaxTime == 6
\* GoogleTrendsClient.__init__: self._min_request_interval = 1.0 (seconds)
MinRequestInterval == 1 * TicksPerSecond

\* GoogleTrendsClient.__init__: self._last_request_time = 0.0
InitialLastRequestTime == 0 * TicksPerSecond

\* the client as its methods see it: the clock, the limiter, the wire
NewClient(t) ==
    [now |-> t, last_request_time |-> InitialLastRequestTime, sent |-> <<>>]

\* a limiter that stamps the request and does not wait
RateLimitNoSleep(c) ==
    [c EXCEPT !.last_request_time = c.now]

\* GoogleTrendsClient._rate_limit: sleep what is left of the interval, then
\* stamp the time read after the sleep
RateLimit(c) ==
    LET elapsed == c.now - c.last_request_time
        woke == IF elapsed < MinRequestInterval
                THEN c.now + (MinRequestInterval - elapsed)
                ELSE c.now
    IN  [c EXCEPT !.now = woke, !.last_request_time = woke]

\* httpx.Response.raise_for_status: every status outside 2xx raises
IsSuccess(status) ==
    status \in 200..299

\* a 400 reported as a general API error
ErrorForStatusNo400(status) ==
    IF status = 429 THEN "RateLimitError" ELSE "APIError"

\* _make_request, except httpx.HTTPStatusError
ErrorForStatus(status) ==
    IF status = 429 THEN "RateLimitError"
    ELSE IF status = 400 THEN "InvalidRequestError"
    ELSE "APIError"

\* class GoogleTrendsError and its subclasses
GoogleTrendsErrors ==
    {"RateLimitError", "TokenError", "InvalidRequestError", "ParseError",
     "APIError"}

----------------------------------------------------------------------------
(* The JSON documents the service answers with. The text of a document is  *)
(* one document character; JsonLoads gives the value json.loads returns:   *)
(* a dict as the list of its items, a list as a sequence.                  *)

\* the "request" a widget echoes
EchoedRequest(widget) ==
    IF widget = "TIMESERIES"
    THEN <<<<"time", "today 12-m">>, <<"resolution", "WEEK">>,
           <<"locale", "en-US">>, <<"comparisonItem", "kw/US">>,
           <<"requestOptions", "property//category/0">>,
           <<"userConfig", "USER_TYPE_SCRAPER">>>>
    ELSE IF widget = "GEO_MAP"
    THEN <<<<"geo", "US">>, <<"comparisonItem", "kw/today 12-m">>,
           <<"resolution", "COUNTRY">>, <<"locale", "en-US">>,
           <<"requestOptions", "property//category/0">>,
           <<"userConfig", "USER_TYPE_SCRAPER">>>>
    ELSE <<<<"restriction", "kw/US/today 12-m">>,
           <<"keywordType", IF widget = "RELATED_TOPICS" THEN "ENTITY" ELSE "QUERY">>,
           <<"metric", "TOP,RISING">>, <<"language", "en">>,
           <<"userConfig", "USER_TYPE_SCRAPER">>>>

\* a widget of the explore response
Widget(id, token, request) ==
    <<<<"id", id>>, <<"token", token>>, <<"request", request>>>>

\* the explore response: its widgets, in the order of the page
ExploreDocument(widgets) ==
    <<<<"widgets", widgets>>>>

\* the four widgets, with the tokens given
FourWidgets(ts, geo, rt, rq) ==
    <<Widget("TIMESERIES", ts, EchoedRequest("TIMESERIES")),
      Widget("GEO_MAP", geo, EchoedRequest("GEO_MAP")),
      Widget("RELATED_TOPICS", rt, EchoedRequest("RELATED_TOPICS")),
      Widget("RELATED_QUERIES", rq, EchoedRequest("RELATED_QUERIES"))>>

\* the documents whose value is a list, not a dict
ListDocuments ==
    {"[]"}

ExploreDocuments ==
    {"X_ALL", "X_NO_TOKEN", "X_TIMESERIES", "X_OTHERS"}

DataDocuments ==
    {"DOC_DAILY", "DOC_NO_DAYS", "DOC_REALTIME", "DOC_MULTILINE",
     "DOC_RELATED", "DOC_TOPICS", "DOC_GEO", "DOC_AUTOCOMPLETE"}

DocumentNames ==
    {"{}"} \cup ListDocuments \cup ExploreDocuments \cup DataDocuments

\* the value of a document
Document(name) ==
    CASE name = "X_ALL" ->
            ExploreDocument(FourWidgets("tokTS", "tokGEO", "tokRT", "tokRQ"))
      [] name = "X_NO_TOKEN" ->
            ExploreDocument(FourWidgets("", "", "", ""))
      [] name = "X_TIMESERIES" ->
            ExploreDocument(<<Widget("TIMESERIES", "tokTS", EchoedRequest("TIMESERIES"))>>)
      [] name = "X_OTHERS" ->
            ExploreDocument(
              <<Widget("GEO_MAP_0", "tokGEO", EchoedRequest("GEO_MAP")),
                Widget("RELATED_TOPICS_0", "tokRT", EchoedRequest("RELATED_TOPICS")),
                Widget("RELATED_QUERIES_0", "tokRQ", EchoedRequest("RELATED_QUERIES"))>>)
      [] name = "DOC_DAILY" ->
            <<<<"default", <<<<"trendingSearchesDays",
                <<<<<<"trendingSearches",
                    <<<<<<"title", <<<<"query", "t1">>>>>>,
                        <<"formattedTraffic", "100K+">>,
                        <<"relatedQueries", <<<<<<"query", "r1">>>>>>>>>>,
                      <<<<"title", <<<<"query", "t2">>>>>>>>>>>>>>>>>>>>>>>>
      [] name = "DOC_NO_DAYS" ->
            <<<<"default", <<<<"trendingSearchesDays", <<>>>>>>>>>>
      [] name = "DOC_REALTIME" ->
            <<<<"storySummaries", <<<<"trendingStories",
                <<<<<<"title", "s1">>, <<"entityNames", <<"e1">>>>>>>>>>>>>>>>
      [] name = "DOC_MULTILINE" ->
            <<<<"default", <<<<"timelineData",
                <<<<<<"formattedTime", "Jan 1">>, <<"value", <<50, 60>>>>,
                    <<"formattedValue", <<"50">>>>>>,
                  <<<<"formattedTime", "Jan 8">>, <<"value", <<70, 80>>>>,
                    <<"isPartial", TRUE>>>>>>>>>>>>>>
      [] name = "DOC_RELATED" ->
            <<<<"default", <<<<"rankedList",
                <<<<<<"rankedKeyword",
                    <<<<<<"query", "q1">>, <<"value", 100>>, <<"link", "/q1">>>>>>>>>>,
                  <<<<"rankedKeyword",
                    <<<<<<"query", "q2">>, <<"value", 250>>,
                        <<"formattedValue", "Breakout">>>>>>>>>>>>>>>>>>>>
      [] name = "DOC_TOPICS" ->
            <<<<"default", <<<<"rankedList",
                <<<<<<"rankedKeyword",
                    <<<<<<"topic", <<<<"title", "T1">>, <<"type", "Topic">>>>>>,
                        <<"value", 100>>>>>>>>>>,
                  <<<<"rankedKeyword", <<>>>>>>>>>>>>>>>>
      [] name = "DOC_GEO" ->
            <<<<"default", <<<<"geoMapData",
                <<<<<<"geoCode", "US-CA">>, <<"geoName", "California">>,
                    <<"value", <<100>>>>, <<"formattedValue", <<"100">>>>,
                    <<"maxValueIndex", 0>>>>,
                  <<<<"geoCode", "US-NY">>, <<"value", <<>>>>>>>>>>>>>>>>
      [] name = "DOC_AUTOCOMPLETE" ->
            <<<<"default", <<<<"topics",
                <<<<<<"mid", "/m/1">>, <<"title", "A1">>, <<"type", "Topic">>>>>>>>>>>>>>
      [] OTHER -> <<>>

\* json.loads: white space around the document is skipped; any other text
\* is not JSON (json.JSONDecodeError)
JsonLoads(text) ==
    LET t == SelectSeq(text, LAMBDA ch : ~IsSpace(ch))
    IN  IF Len(t) = 1 /\ t[1] \in DocumentNames
        THEN [ok |-> TRUE, is_dict |-> t[1] \notin ListDocuments,
              value |-> Document(t[1])]
        ELSE [ok |-> FALSE, is_dict |-> FALSE, value |-> <<>>]

\* GoogleTrendsClient._parse_response
ParseResponse(text) ==
    JsonLoads(ClientStrip(text))

\* an operation ends by raising error / by returning value
Raise(c, error) ==
    [c |-> c, error |-> error, value |-> <<>>]

Return(c, value) ==
    [c |-> c, error |-> "", value |-> value]

\* GoogleTrendsClient._make_request: the limiter, the request on the wire,
\* then the status and the body of the response. The time the service
\* takes to answer passes between calls (Tick); inside a call the next
\* request finds the limiter as the last one left it.
MakeRequest(c, url, params, response) ==
    LET limited == RateLimit(c)
        request == [url |-> url, params |-> params, at |-> limited.now,
                    status |-> response.status, body |-> response.body]
        answered == [limited EXCEPT !.sent = Append(@, request)]
    IN  IF ~IsSuccess(response.status)
        THEN [c |-> answered, error |-> ErrorForStatus(response.status),
              is_dict |-> FALSE, value |-> <<>>]
        ELSE CHOOSE out \in
            {IF ~parsed.ok
             THEN [c |-> answered, error |-> "ParseError",
                   is_dict |-> FALSE, value |-> <<>>]
             ELSE [c |-> answered, error |-> "",
                   is_dict |-> parsed.is_dict, value |-> parsed.value] :
                parsed \in {ParseResponse(response.body)}} : TRUE

\* data.get(outer, {}).get(inner, [])
GetNested(data, outer, inner) ==
    DictGet(DictGet(data, outer, <<>>), inner, <<>>)

ExploreUrl == "/trends/api/explore"
DailyTrendsUrl == "/trends/api/dailytrends"
RealtimeTrendsUrl == "/trends/api/realtimetrends"
MultilineUrl == "/trends/api/widgetdata/multiline"
RelatedUrl == "/trends/api/widgetdata/relatedsearches"
ComparedGeoUrl == "/trends/api/widgetdata/comparedgeo"
AutocompleteUrl == "/trends/api/autocomplete"

\* the data endpoints of the token-gated operations
DataUrls ==
    {MultilineUrl, RelatedUrl, ComparedGeoUrl}

\* TrendsConfig.geo, as the Orchestrator passes it
ConfigGeo == "US"

\* get_daily_trends: one TrendingSearch of the response
TrendingSearch(search) ==
    [title |-> DictGet(DictGet(search, "title", <<>>), "query", ""),
     traffic |-> DictGet(search, "formattedTraffic", ""),
     related_queries |->
        LET qs == DictGet(search, "relatedQueries", <<>>)
        IN  [i \in 1..Len(qs) |-> DictGet(qs[i], "query", "")],
     articles |->
        LET as == DictGet(search, "articles", <<>>)
        IN  [i \in 1..Len(as) |->
                [title |-> DictGet(as[i], "title", ""),
                 url |-> DictGet(as[i], "url", ""),
                 source |-> DictGet(as[i], "source", "")]],
     image_url |-> DictGet(DictGet(search, "image", <<>>), "newsUrl", "")]

\* get_daily_trends: results, the searches of every day in order
DailyResults(data) ==
    LET trending_days == GetNested(data, "default", "trendingSearchesDays")
    IN  Concat([d \in 1..Len(trending_days) |->
            LET searches == DictGet(trending_days[d], "trendingSearches", <<>>)
            IN  [i \in 1..Len(searches) |-> TrendingSearch(searches[i])]])

DailyParams ==
    <<<<"hl", ConfigHl>>, <<"tz", ConfigTz>>, <<"geo", ConfigGeo>>,
      <<"ns", "15">>, <<"ed", "today">>>>

\* GoogleTrendsClient.get_daily_trends. The reply r of the request is bound
\* by a set constructor: it is computed once, as the code holds it in data.
GetDailyTrends(c, response) ==
    CHOOSE out \in
        {IF r.error # "" THEN Raise(r.c, r.error)
         ELSE IF ~r.is_dict THEN Raise(r.c, "AttributeError")
         ELSE Return(r.c, DailyResults(r.value)) :
            r \in {MakeRequest(c, DailyTrendsUrl, DailyParams, response)}} : TRUE

\* get_realtime_trends: stories
RealtimeResults(data) ==
    LET stories == GetNested(data, "storySummaries", "trendingStories")
    IN  [i \in 1..Len(stories) |->
            [title |-> DictGet(stories[i], "title", ""),
             entityNames |-> DictGet(stories[i], "entityNames", <<>>),
             articles |-> DictGet(stories[i], "articles", <<>>),
             image |-> DictGet(stories[i], "image", <<>>)]]

RealtimeParams ==
    <<<<"hl", ConfigHl>>, <<"tz", ConfigTz>>, <<"geo", ConfigGeo>>,
      <<"cat", "all">>, <<"fi", "0">>, <<"fs", "0">>,
      <<"ri", "300">>, <<"rs", "20">>, <<"sort", "0">>>>

\* GoogleTrendsClient.get_realtime_trends
GetRealtimeTrends(c, response) ==
    CHOOSE out \in
        {IF r.error # "" THEN Raise(r.c, r.error)
         ELSE IF ~r.is_dict THEN Raise(r.c, "AttributeError")
         ELSE Return(r.c, RealtimeResults(r.value)) :
            r \in {MakeRequest(c, RealtimeTrendsUrl, RealtimeParams, response)}} : TRUE

\* autocomplete: results
AutocompleteResults(data) ==
    LET topics == GetNested(data, "default", "topics")
    IN  [i \in 1..Len(topics) |->
            [mid |-> DictGet(topics[i], "mid", ""),
             title |-> DictGet(topics[i], "title", ""),
             type |-> DictGet(topics[i], "type", "")]]

\* GoogleTrendsClient.autocomplete
Autocomplete(c, response) ==
    CHOOSE out \in
        {IF r.error # "" THEN Raise(r.c, r.error)
         ELSE IF ~r.is_dict THEN Raise(r.c, "AttributeError")
         ELSE Return(r.c, AutocompleteResults(r.value)) :
            r \in {MakeRequest(c, AutocompleteUrl \o "/query",
                               <<<<"hl", ConfigHl>>, <<"tz", ConfigTz>>>>,
                               response)}} : TRUE

\* TokenInfo(token=token, request_data=request), created at time t
TokenInfo(token, request, t) ==
    [token |-> token, request_data |-> request,
     expires_at |-> t + TokenLifetime * TicksPerSecond]

\* every widget counts, its token empty or not
AnyToken(token) ==
    TRUE

\* _get_explore_tokens: if token
TokenPresent(token) ==
    token # ""

RECURSIVE TokensOfWidgets(_, _, _)
\* _get_explore_tokens: the loop over data["widgets"]
TokensOfWidgets(widgets, tokens, t) ==
    IF widgets = <<>> THEN tokens
    ELSE LET widget == Head(widgets)
             widget_id == DictGet(widget, "id", "")
             token == DictGet(widget, "token", "")
             request == DictGet(widget, "request", <<>>)
         IN  TokensOfWidgets(Tail(widgets),
                IF TokenPresent(token)
                THEN DictSet(tokens, widget_id, TokenInfo(token, request, t))
                ELSE tokens,
                t)

\* the comparison items of the explore request, one for each keyword
ComparisonItems(keywords) ==
    [i \in 1..Len(keywords) |->
        <<<<"keyword", keywords[i]>>, <<"geo", ConfigGeo>>,
          <<"time", "today 12-m">>>>]

\* _get_explore_tokens: params (the literal names "tz" twice: one item)
ExploreParams(keywords) ==
    <<<<"hl", ConfigHl>>, <<"tz", ConfigTz>>,
      <<"req", JsonDumps(<<<<"comparisonItem", ComparisonItems(keywords)>>,
                           <<"category", "0">>,
                           <<"property", "">>>>)>>>>

\* GoogleTrendsClient._get_explore_tokens
GetExploreTokens(c, keywords, response) ==
    CHOOSE out \in
        {IF r.error # "" THEN Raise(r.c, r.error)
         ELSE IF r.is_dict /\ DictHas(r.value, "widgets")
         THEN Return(r.c, TokensOfWidgets(DictAt(r.value, "widgets"), <<>>, r.c.now))
         ELSE Return(r.c, <<>>) :
            r \in {MakeRequest(c, ExploreUrl, ExploreParams(keywords), response)}} : TRUE

\* the suffixes the page gives a widget id
WidgetIdSuffixes ==
    {"", "_0", "_1"}

\* needle in widget_id
InWidgetId(needle, widget_id) ==
    \E suffix \in WidgetIdSuffixes : widget_id = needle \o suffix

\* the positions in tokens.items() whose widget id holds the needle
TokenMatches(tokens, needle) ==
    {i \in 1..Len(tokens) : InWidgetId(needle, tokens[i][1])}

\* the token the loop over tokens.items() breaks on: the first match
FirstToken(tokens, needle) ==
    tokens[Min(TokenMatches(tokens, needle))][2]

\* a token-gated operation finds its token: the explore request raised
\* nothing and a widget id among the tokens holds the needle
TokenFound(c, keywords, needle, explore_response) ==
    \E t \in {GetExploreTokens(c, keywords, explore_response)} :
        t.error = "" /\ TokenMatches(t.value, needle) # {}

\* the data request of a token-gated operation, from the token found
\* (resolution "" for an operation that sets none)
DataRequest(c, token_info, url, resolution, data_response) ==
    MakeRequest(c, url,
        DataParams(IF resolution = ""
                   THEN CleanRequestData(token_info.request_data)
                   ELSE RegionRequestData(token_info, resolution),
                   token_info.token),
        data_response)

\* a token-gated operation up to the response to its data request: the
\* explore request, the token sought, the data request
GatedData(c, keywords, needle, url, resolution, explore_response, data_response) ==
    CHOOSE out \in
        {IF t.error # ""
         THEN [c |-> t.c, error |-> t.error, is_dict |-> FALSE, value |-> <<>>]
         ELSE IF TokenMatches(t.value, needle) = {}
         THEN [c |-> t.c, error |-> "TokenError", is_dict |-> FALSE, value |-> <<>>]
         ELSE DataRequest(t.c, FirstToken(t.value, needle), url, resolution,
                          data_response) :
            t \in {GetExploreTokens(c, keywords, explore_response)}} : TRUE

\* get_interest_over_time: Maximum 5 keywords allowed
KeywordLimit == 5

\* a limit that lets one keyword more through
OverLimitByTwo(keywords) ==
    Len(keywords) > KeywordLimit + 1

\* get_interest_over_time: len(keywords) > 5
OverLimit(keywords) ==
    Len(keywords) > KeywordLimit

\* get_interest_over_time: the InterestPoint of keyword number i (from 0)
\* at one point of the timeline
InterestPoint(point, i) ==
    LET values == DictGet(point, "value", <<>>)
        formatted == DictGet(point, "formattedValue", <<>>)
    IN  [date |-> DictGet(point, "formattedTime", ""),
         value |-> values[i + 1],
         formatted_value |-> IF i < Len(formatted) THEN formatted[i + 1] ELSE "",
         is_partial |-> DictGet(point, "isPartial", FALSE)]

\* get_interest_over_time: results, a list for every keyword
InterestResults(keywords, data) ==
    LET timeline == GetNested(data, "default", "timelineData")
    IN  [k \in 1..Len(keywords) |->
            <<keywords[k],
              LET with_value == SelectSeq(timeline,
                      LAMBDA point : k - 1 < Len(DictGet(point, "value", <<>>)))
              IN  [p \in 1..Len(with_value) |-> InterestPoint(with_value[p], k - 1)]>>]

\* GoogleTrendsClient.get_interest_over_time
GetInterestOverTime(c, keywords, explore_response, data_response) ==
    IF OverLimit(keywords) THEN Raise(c, "InvalidRequestError")
    ELSE CHOOSE out \in
        {IF r.error # "" THEN Raise(r.c, r.error)
         ELSE IF ~r.is_dict THEN Raise(r.c, "AttributeError")
         ELSE Return(r.c, InterestResults(keywords, r.value)) :
            r \in {GatedData(c, keywords, "TIMESERIES", MultilineUrl, "",
                             explore_response, data_response)}} : TRUE

\* the items of every ranked list whose rankedKeyword is not empty, in order
RankedItems(data) ==
    LET ranked_lists == GetNested(data, "default", "rankedList")
    IN  Concat([i \in 1..Len(ranked_lists) |->
                    DictGet(ranked_lists[i], "rankedKeyword", <<>>)])

\* get_related_queries: one RelatedQuery
RelatedQuery(item) ==
    [query |-> DictGet(item, "query", ""),
     value |-> IF DictGet(item, "formattedValue", "") = "Breakout"
               THEN "Breakout" ELSE DictGet(item, "value", 0),
     link |-> DictGet(item, "link", "")]

\* get_related_queries: results. The list type of a ranked list is "top"
\* when its rankedKeyword is not empty and "rising" when it is empty, so
\* every item goes under "top"
RelatedQueryResults(data) ==
    LET items == RankedItems(data)
    IN  <<<<"top", [i \in 1..Len(items) |-> RelatedQuery(items[i])]>>,
          <<"rising", <<>>>>>>

\* GoogleTrendsClient.get_related_queries
GetRelatedQueries(c, explore_response, data_response) ==
    CHOOSE out \in
        {IF r.error # "" THEN Raise(r.c, r.error)
         ELSE IF ~r.is_dict THEN Raise(r.c, "AttributeError")
         ELSE Return(r.c, RelatedQueryResults(r.value)) :
            r \in {GatedData(c, <<"k1">>, "RELATED_QUERIES", RelatedUrl, "",
                             explore_response, data_response)}} : TRUE

\* get_related_topics: one topic
RelatedTopic(item) ==
    LET topic == DictGet(item, "topic", <<>>)
    IN  [title |-> DictGet(topic, "title", ""),
         type |-> DictGet(topic, "type", ""),
         value |-> DictGet(item, "value", 0),
         link |-> DictGet(item, "link", "")]

\* get_related_topics: results, every item under "top" as for the queries
RelatedTopicResults(data) ==
    LET items == RankedItems(data)
    IN  <<<<"top", [i \in 1..Len(items) |-> RelatedTopic(items[i])]>>,
          <<"rising", <<>>>>>>

\* GoogleTrendsClient.get_related_topics
GetRelatedTopics(c, explore_response, data_response) ==
    CHOOSE out \in
        {IF r.error # "" THEN Raise(r.c, r.error)
         ELSE IF ~r.is_dict THEN Raise(r.c, "AttributeError")
         ELSE Return(r.c, RelatedTopicResults(r.value)) :
            r \in {GatedData(c, <<"k1">>, "RELATED_TOPICS", RelatedUrl, "",
                             explore_response, data_response)}} : TRUE

\* get_interest_by_region: one region
RegionRecord(region) ==
    LET value == DictGet(region, "value", <<>>)
        formatted == DictGet(region, "formattedValue", <<>>)
    IN  [geoCode |-> DictGet(region, "geoCode", ""),
         geoName |-> DictGet(region, "geoName", ""),
         value |-> IF value # <<>> THEN value[1] ELSE 0,
         formattedValue |-> IF formatted # <<>> THEN formatted[1] ELSE "",
         maxValueIndex |-> DictGet(region, "maxValueIndex", 0)]

\* get_interest_by_region: results
RegionResults(data) ==
    LET geo_data == GetNested(data, "default", "geoMapData")
    IN  [i \in 1..Len(geo_data) |-> RegionRecord(geo_data[i])]

\* GoogleTrendsClient.get_interest_by_region
GetInterestByRegion(c, resolution, explore_response, data_response) ==
    CHOOSE out \in
        {IF r.error # "" THEN Raise(r.c, r.error)
         ELSE IF ~r.is_dict THEN Raise(r.c, "AttributeError")
         ELSE Return(r.c, RegionResults(r.value)) :
            r \in {GatedData(c, <<"k1">>, "GEO_MAP", ComparedGeoUrl, resolution,
                             explore_response, data_response)}} : TRUE

----------------------------------------------------------------------------
(* SpecClient: calls on one GoogleTrendsClient, the service answering each *)
(* request with any status and body of a small set, while time passes.     *)

\* keyword lists have up to MaxKeywords keywords
MaxKeywords == 6

KeywordNames ==
    <<"k1", "k2", "k3", "k4", "k5", "k6", "k7", "k8">>

Keywords(n) ==
    [i \in 1..n |-> KeywordNames[i]]

\* the lists tried: one keyword, the limit, and every length above it
KeywordLists ==
    {Keywords(n) : n \in {1, KeywordLimit} \cup (KeywordLimit + 1)..MaxKeywords}

\* the statuses the service answers with
Statuses ==
    {200, 304, 400, 429, 500}

\* a document as the service sends it: after the marker and a newline
Prefixed(document) ==
    XssiMarker \o <<"\n", document>>

\* bodies that are no JSON document, and the empty object after the
\* marker without its quote
PlainBodies ==
    {<<>>, <<"<", "h", "t", "m", "l", ">">>, PrefixNewline \o <<"{}">>}

\* the responses of an endpoint that answers with these documents
Responses(documents) ==
    [status : Statuses \ {200}, body : {<<>>}]
        \cup [status : {200},
              body : PlainBodies \cup {Prefixed(d) : d \in documents}]

ExploreResponses ==
    Responses(ExploreDocuments)

\* the response of a request that is never sent
NoResponse ==
    [status |-> 0, body |-> <<>>]

\* the responses to the explore request of an interest-over-time call
ExploreResponsesFor(keywords) ==
    IF OverLimit(keywords) THEN {NoResponse} ELSE ExploreResponses

\* the responses to the data request of a token-gated call: those of its
\* endpoint when the call gets as far as sending it
DataResponses(found, documents) ==
    IF found THEN Responses(documents \cup ListDocuments) ELSE {NoResponse}

\* the clock lets the limiter release one more request
CanSend ==
    /\ ~api_client.closed
    /\ RateLimit([now |-> now, last_request_time |-> last_request_time,
                  sent |-> <<>>]).now <= MaxTime

\* what the client object of this specification holds when a call starts
Client ==
    [now |-> now, last_request_time |-> last_request_time, sent |-> <<>>]

InitClient ==
    /\ NoPure
    /\ now = MinRequestInterval
    /\ last_request_time = InitialLastRequestTime
    /\ sent = <<>>
    /\ call = NoCall
    /\ before = [last_request_time |-> InitialLastRequestTime, sent_at |-> -1]
    /\ outcome = NoOutcome
    /\ config = [use_fallback |-> FALSE, fallback_on_rate_limit |-> FALSE,
                 fallback_on_token_error |-> FALSE]
    /\ api_client = NewApiClient
    /\ playwright_fetcher = "None"
    /\ playwright_initialized = FALSE
    /\ fetcher_log = <<>>
    /\ result = NoOutcome
    /\ loop = NoLoop
    /\ NoBrowser

\* time passes
Tick ==
    /\ now < MaxTime
    /\ now' = now + 1
    /\ UNCHANGED <<last_request_time, sent, call, before, outcome>>
    /\ UNCHANGED <<orchestrator_vars, fetcher_vars, pure_vars>>

\* the client after a call that ended as r, and what the call is known by
ClientAfter(op, keywords, resolution, r) ==
    /\ r.c.now <= MaxTime
    /\ now' = r.c.now
    /\ last_request_time' = r.c.last_request_time
    /\ sent' = r.c.sent
    /\ call' = [op |-> op, keywords |-> keywords, resolution |-> resolution]
    /\ before' = [last_request_time |-> last_request_time,
                  sent_at |-> IF sent = <<>> THEN before.sent_at
                              ELSE sent[Len(sent)].at]
    /\ outcome' = [error |-> r.error, value |-> r.value]

CallGetDailyTrends ==
    /\ CanSend
    /\ \E response \in Responses({"DOC_DAILY", "DOC_NO_DAYS"} \cup ListDocuments) :
       \E r \in {GetDailyTrends(Client, response)} :
          ClientAfter("get_daily_trends", <<>>, "", r)
    /\ UNCHANGED <<orchestrator_vars, fetcher_vars, pure_vars>>

CallGetRealtimeTrends ==
    /\ CanSend
    /\ \E response \in Responses({"DOC_REALTIME"}) :
       \E r \in {GetRealtimeTrends(Client, response)} :
          ClientAfter("get_realtime_trends", <<>>, "", r)
    /\ UNCHANGED <<orchestrator_vars, fetcher_vars, pure_vars>>

CallAutocomplete ==
    /\ CanSend
    /\ \E response \in Responses({"DOC_AUTOCOMPLETE"}) :
       \E r \in {Autocomplete(Client, response)} :
          ClientAfter("autocomplete", <<>>, "", r)
    /\ UNCHANGED <<orchestrator_vars, fetcher_vars, pure_vars>>

CallGetInterestOverTime ==
    /\ \E keywords \in KeywordLists :
       \E explore_response \in ExploreResponsesFor(keywords) :
       \E data_response \in DataResponses(
              ~OverLimit(keywords)
                  /\ TokenFound(Client, keywords, "TIMESERIES", explore_response),
              {"DOC_MULTILINE"}) :
       \E r \in {GetInterestOverTime(Client, keywords,
                                      explore_response, data_response)} :
          /\ OverLimit(keywords) \/ CanSend
          /\ ClientAfter("get_interest_over_time", keywords, "", r)
    /\ UNCHANGED <<orchestrator_vars, fetcher_vars, pure_vars>>

CallGetRelatedQueries ==
    /\ CanSend
    /\ \E explore_response \in ExploreResponses :
       \E data_response \in DataResponses(
              TokenFound(Client, <<"k1">>, "RELATED_QUERIES", explore_response),
              {"DOC_RELATED"}) :
       \E r \in {GetRelatedQueries(Client, explore_response, data_response)} :
          ClientAfter("get_related_queries", <<"k1">>, "", r)
    /\ UNCHANGED <<orchestrator_vars, fetcher_vars, pure_vars>>

CallGetRelatedTopics ==
    /\ CanSend
    /\ \E explore_response \in ExploreResponses :
       \E data_response \in DataResponses(
              TokenFound(Client, <<"k1">>, "RELATED_TOPICS", explore_response),
              {"DOC_TOPICS"}) :
       \E r \in {GetRelatedTopics(Client, explore_response, data_response)} :
          ClientAfter("get_related_topics", <<"k1">>, "", r)
    /\ UNCHANGED <<orchestrator_vars, fetcher_vars, pure_vars>>

CallGetInterestByRegion ==
    /\ CanSend
    /\ \E resolution \in {"COUNTRY", "CITY"} :
       \E explore_response \in ExploreResponses :
       \E data_response \in DataResponses(
              TokenFound(Client, <<"k1">>, "GEO_MAP", explore_response),
              {"DOC_GEO"}) :
       \E r \in {GetInterestByRegion(Client, resolution,
                                      explore_response, data_response)} :
          ClientAfter("get_interest_by_region", <<"k1">>, resolution, r)
    /\ UNCHANGED <<orchestrator_vars, fetcher_vars, pure_vars>>

NextClient ==
    \/ Tick
    \/ CallGetDailyTrends
    \/ CallGetRealtimeTrends
    \/ CallAutocomplete
    \/ CallGetInterestOverTime
    \/ CallGetRelatedQueries
    \/ CallGetRelatedTopics
    \/ CallGetInterestByRegion

SpecClient == InitClient /\ [][NextClient]_vars

\* C2: every request passes through the rate limiter (the limiter's stamp is
\* the send time of the last request), and the send times of two
\* consecutive requests, of one call or of two calls, differ by at least the
\* floor interval.
C2_RateLimitFloor ==
    /\ \A i \in 1..(Len(sent) - 1) :
          sent[i + 1].at - sent[i].at >= MinRequestInterval
    /\ (sent # <<>> /\ before.sent_at # -1) =>
          sent[1].at - before.sent_at >= MinRequestInterval
    /\ sent # <<>> => last_request_time = sent[Len(sent)].at

\* C2 witness: a call sent two requests, the first one floor interval after
\* the last request of an earlier call, the second one floor interval later.
C2_WitnessThreeRequestsSpaced ==
    /\ Len(sent) = 2
    /\ before.sent_at # -1
    /\ sent[1].at = before.sent_at + MinRequestInterval
    /\ sent[2].at = sent[1].at + MinRequestInterval

\* C3: an interest-over-time call with more than 5 keywords fails with
\* InvalidRequestError, sends no request (token or data), and leaves the
\* rate limiter's last-request time as the call found it.
C3_OverLimitFailsBeforeNetwork ==
    (call.op = "get_interest_over_time" /\ Len(call.keywords) > 5) =>
        /\ outcome.error = "InvalidRequestError"
        /\ sent = <<>>
        /\ last_request_time = before.last_request_time

\* C3 witness: a call with 6 keywords on a client that has sent requests
\* before has failed with InvalidRequestError.
C3_WitnessSixKeywords ==
    /\ call.op = "get_interest_over_time"
    /\ Len(call.keywords) = 6
    /\ outcome.error = "InvalidRequestError"
    /\ before.sent_at # -1
    /\ last_request_time # InitialLastRequestTime

\* C4 (as stated): a daily-trends call whose request is answered with a
\* successful status and an empty body returns an empty list and raises
\* nothing.
C4_EmptyBodyYieldsEmptyList ==
    (/\ call.op = "get_daily_trends"
     /\ Len(sent) = 1
     /\ sent[1].status \in 200..299
     /\ sent[1].body = <<>>) =>
        outcome.error = "" /\ outcome.value = <<>>

NeededWidget(op) ==
    CASE op = "get_interest_over_time" -> "TIMESERIES"
      [] op = "get_related_queries" -> "RELATED_QUERIES"
      [] op = "get_related_topics" -> "RELATED_TOPICS"
      [] op = "get_interest_by_region" -> "GEO_MAP"
      [] OTHER -> ""

\* the widgets of a token response that are of the type and carry a token
WidgetsWithToken(body, type) ==
    LET parsed == ParseResponse(body)
        widgets == IF parsed.ok /\ parsed.is_dict
                   THEN DictGet(parsed.value, "widgets", <<>>) ELSE <<>>
    IN  {i \in 1..Len(widgets) :
            /\ InWidgetId(type, DictGet(widgets[i], "id", ""))
            /\ DictGet(widgets[i], "token", "") # ""}

\* C10: a token-gated call whose token response (a 2xx JSON answer to its
\* explore request) holds no widget of the needed type with a token fails
\* with TokenError, and the explore request is the only request it sent.
C10_NoTokenNoDataRequest ==
    (/\ NeededWidget(call.op) # ""
     /\ sent # <<>>
     /\ sent[1].status \in 200..299
     /\ ParseResponse(sent[1].body).ok
     /\ WidgetsWithToken(sent[1].body, NeededWidget(call.op)) = {}) =>
        /\ outcome.error = "TokenError"
        /\ Len(sent) = 1
        /\ sent[1].url = ExploreUrl

\* C10 witness: a related-topics call got a token response whose widgets
\* all have an empty token, and failed with TokenError.
C10_WitnessEmptyTokens ==
    /\ call.op = "get_related_topics"
    /\ Len(sent) = 1
    /\ sent[1].body = Prefixed("X_NO_TOKEN")
    /\ outcome.error = "TokenError"


----------------------------------------------------------------------------
(* The Browser Fetcher (PlaywrightTrendsFetcher). A resource of the        *)
(* browser is "None" until it is acquired and "open" from then on; a page   *)
(* can be "closed" while the Fetcher still holds it.                        *)

\* the awaits of _setup, in order
SetupSteps ==
    <<"async_playwright.start", "chromium.launch", "browser.new_context",
      "context.add_init_script", "context.new_page">>

\* where _setup can raise: nowhere, or at one of its awaits
SetupFailures ==
    {"none"} \cup {SetupSteps[i] : i \in 1..Len(SetupSteps)}

\* the position of a step in a list of steps (0 when it is not there)
StepIndex(steps, step) ==
    IF \E i \in 1..Len(steps) : steps[i] = step
    THEN CHOOSE i \in 1..Len(steps) : steps[i] = step
    ELSE 0

\* the steps of a list that run when the step fail_at raises: those before
\* it and the step itself
StepsUpTo(steps, fail_at) ==
    IF StepIndex(steps, fail_at) = 0 THEN steps
    ELSE SubSeq(steps, 1, StepIndex(steps, fail_at))

\* PlaywrightTrendsFetcher._setup: each resource is assigned when its await
\* returns; the flag _session_warmed_up is set last. The await fail_at
\* raises: what was assigned before stays assigned.
Setup(f, fail_at) ==
    LET done == IF fail_at = "none" THEN Len(SetupSteps)
                ELSE StepIndex(SetupSteps, fail_at) - 1
    IN  [f |-> [f EXCEPT
                  !.playwright = IF done >= 1 THEN "open" ELSE @,
                  !.browser = IF done >= 2 THEN "open" ELSE @,
                  !.context = IF done >= 3 THEN "open" ELSE @,
                  !.page = IF done >= 5 THEN "open" ELSE @,
                  !.session_warmed_up = IF done >= 5 THEN "False" ELSE @],
         log |-> StepsUpTo(SetupSteps, fail_at),
         error |-> IF fail_at = "none" THEN "" ELSE "PlaywrightError"]

\* the release steps of _cleanup, in order
ReleaseSteps ==
    <<"page.close", "context.close", "browser.close", "playwright.stop">>

\* the release steps that raise in one teardown: none, one, or all
ReleaseFailures ==
    {{}, {ReleaseSteps[i] : i \in 1..Len(ReleaseSteps)}}
        \cup {{ReleaseSteps[i]} : i \in 1..Len(ReleaseSteps)}

\* _cleanup: the condition under which it calls a release step
\* (self._page and not self._page.is_closed(); self._context; ...)
Releases(f, step) ==
    CASE step = "page.close" -> f.page = "open"
      [] step = "context.close" -> f.context # "None"
      [] step = "browser.close" -> f.browser # "None"
      [] step = "playwright.stop" -> f.playwright # "None"

\* a teardown in one try block: the first release that raises ends it
ReleasesCalledInOneTry(f, raising) ==
    LET called == SelectSeq(ReleaseSteps, LAMBDA step : Releases(f, step))
        failed == {i \in 1..Len(called) : called[i] \in raising}
    IN  IF failed = {} THEN called
        ELSE SubSeq(called, 1, CHOOSE i \in failed : \A j \in failed : i <= j)

\* _cleanup: the release steps it calls. Each is in a try block of its own,
\* so the steps in raising, which raise, stop nothing
ReleasesCalled(f, raising) ==
    SelectSeq(ReleaseSteps, LAMBDA step : Releases(f, step))

\* PlaywrightTrendsFetcher._cleanup: the releases, then every reference is
\* dropped; nothing is raised
Cleanup(f, raising) ==
    [f |-> [f EXCEPT !.page = "None", !.context = "None",
                     !.browser = "None", !.playwright = "None"],
     log |-> ReleasesCalled(f, raising),
     error |-> ""]


----------------------------------------------------------------------------
(* The Orchestrator (TrendsAPI): the Protocol Client first, the Browser     *)
(* Fetcher when the fallback policy says so.                                *)

\* a policy that never looks at use_fallback
ShouldFallbackWhateverTheSwitch(cfg, error) ==
    IF error = "RateLimitError" /\ cfg.fallback_on_rate_limit THEN TRUE
    ELSE IF error = "TokenError" /\ cfg.fallback_on_token_error THEN TRUE
    ELSE IF error \in GoogleTrendsErrors THEN TRUE
    ELSE FALSE

\* TrendsAPI._should_fallback
ShouldFallback(cfg, error) ==
    IF ~cfg.use_fallback THEN FALSE
    ELSE IF error = "RateLimitError" /\ cfg.fallback_on_rate_limit THEN TRUE
    ELSE IF error = "TokenError" /\ cfg.fallback_on_token_error THEN TRUE
    ELSE IF error \in GoogleTrendsErrors THEN TRUE
    ELSE FALSE

\* what the TrendsAPI object holds of its fetcher when a call starts; the
\* log is of the call: the fetcher's construction, set-up and operations
Api ==
    [playwright_fetcher |-> playwright_fetcher,
     playwright_initialized |-> playwright_initialized,
     fetcher |-> fetcher,
     fetcher_log |-> <<>>]

\* a fetcher made whenever none has been set up
GetPlaywrightFetcherUnlessInitialized(api, fail_at) ==
    LET made == [api EXCEPT !.playwright_fetcher = "PlaywrightTrendsFetcher",
                            !.fetcher = Setup(NewFetcher, fail_at).f,
                            !.fetcher_log = @ \o <<"__init__", "_setup">>]
    IN  IF api.playwright_initialized THEN [api |-> api, error |-> ""]
        ELSE IF fail_at = "none"
        THEN [api |-> [made EXCEPT !.playwright_initialized = TRUE], error |-> ""]
        ELSE [api |-> made, error |-> "PlaywrightError"]

\* TrendsAPI._get_playwright_fetcher: the fetcher is assigned before its
\* _setup is awaited, the flag is set after; fail_at tells where _setup
\* raises ("none": it returns)
GetPlaywrightFetcher(api, fail_at) ==
    IF api.playwright_fetcher = "None"
    THEN LET made == [api EXCEPT !.playwright_fetcher = "PlaywrightTrendsFetcher",
                                 !.fetcher = Setup(NewFetcher, fail_at).f,
                                 !.fetcher_log = @ \o <<"__init__", "_setup">>]
         IN  IF fail_at = "none"
             THEN [api |-> [made EXCEPT !.playwright_initialized = TRUE], error |-> ""]
             ELSE [api |-> made, error |-> "PlaywrightError"]
    ELSE [api |-> api, error |-> ""]

\* PlaywrightTrendsFetcher.get_interest_over_time: len(keywords) > 5
FetcherOverLimit(keywords) ==
    Len(keywords) > 5

\* what an operation of a fetcher with a page returns when the page shows
\* nothing, and when it shows one item
FetcherValues(fetcher_op, keywords) ==
    CASE fetcher_op = "get_daily_trends" ->
            {<<>>,
             <<[title |-> "p1", traffic |-> "2M+",
                related_queries |-> <<>>, articles |-> <<>>]>>}
      [] fetcher_op = "get_interest_over_time" ->
            {[k \in 1..Len(keywords) |-> <<keywords[k], <<>>>>],
             [k \in 1..Len(keywords) |->
                <<keywords[k],
                  <<[date |-> "Jan 1", value |-> 50, formatted_value |-> "50"]>>>>]}
      [] fetcher_op = "get_related_queries" ->
            {<<<<"top", <<>>>>, <<"rising", <<>>>>>>,
             <<<<"top", <<<<<<"query", "p1">>, <<"value", 100>>, <<"link", "/p1">>>>>>>>,
               <<"rising", <<<<<<"query", "p2">>>>>>>>>>}
      [] fetcher_op = "get_interest_by_region" ->
            {<<>>,
             <<[geoCode |-> "US-CA", geoName |-> "California", value |-> 100]>>}

\* how an operation of the fetcher can end. With a page: a value, or
\* NavigationError from _navigate_with_retry (get_interest_over_time
\* swallows what its navigation raises). Without a page (its _setup raised):
\* page.goto fails in _navigate_with_retry; the operations that warm the
\* session up read _session_warmed_up, which _setup has not set.
FetcherOutcomes(fetcher_op, keywords, initialized) ==
    IF fetcher_op = "get_interest_over_time"
    THEN IF FetcherOverLimit(keywords) THEN {[error |-> "ValueError", value |-> <<>>]}
         ELSE IF initialized
         THEN {[error |-> "", value |-> v] : v \in FetcherValues(fetcher_op, keywords)}
         ELSE {[error |-> "AttributeError", value |-> <<>>]}
    ELSE IF initialized
    THEN {[error |-> "", value |-> v] : v \in FetcherValues(fetcher_op, keywords)}
            \cup {[error |-> "NavigationError", value |-> <<>>]}
    ELSE IF fetcher_op = "get_daily_trends"
    THEN {[error |-> "NavigationError", value |-> <<>>]}
    ELSE {[error |-> "AttributeError", value |-> <<>>]}

\* no fetcher runs in the call
NoRun ==
    [fail_at |-> "none", fetched |-> NoOutcome]

\* the ways the fetcher's side of a call can go: nothing when the call
\* does not turn to it; else _setup raises (a fetcher is made only when
\* there is none), or the operation ends in one of its ways
FetcherRuns(needed, fetcher_op, keywords) ==
    IF ~needed THEN {NoRun}
    ELSE IF playwright_fetcher = "None"
    THEN {[fail_at |-> step, fetched |-> NoOutcome] :
            step \in SetupFailures \ {"none"}}
            \cup {[fail_at |-> "none", fetched |-> f] :
                    f \in FetcherOutcomes(fetcher_op, keywords, TRUE)}
    ELSE {[fail_at |-> "none", fetched |-> f] :
            f \in FetcherOutcomes(fetcher_op, keywords, playwright_initialized)}

\* fetcher = await self._get_playwright_fetcher();
\* results = await fetcher.<fetcher_op>(...)
FetcherCall(api, fetcher_op, run) ==
    CHOOSE out \in
        {IF got.error # ""
         THEN [api |-> got.api, error |-> got.error, value |-> <<>>]
         ELSE [api |-> [got.api EXCEPT !.fetcher_log = Append(@, fetcher_op)],
               error |-> run.fetched.error, value |-> run.fetched.value] :
            got \in {GetPlaywrightFetcher(api, run.fail_at)}} : TRUE


\* UnifiedTrendingItem(title=r.title, ..., source=source)
UnifiedTrendingItem(r, source) ==
    [title |-> r.title, traffic |-> r.traffic,
     related_queries |-> r.related_queries, articles |-> r.articles,
     source |-> source]

\* an operation of the Orchestrator ends: what it leaves of the fetcher,
\* and the error it raises or the value it returns
ApiRaise(api, error) ==
    [api |-> api, error |-> error, value |-> <<>>]

ApiReturn(api, value) ==
    [api |-> api, error |-> "", value |-> value]

\* TrendsAPI._daily_trends_playwright
DailyTrendsPlaywright(run) ==
    CHOOSE out \in
        {IF f.error # "" THEN ApiRaise(f.api, f.error)
         ELSE ApiReturn(f.api,
                [i \in 1..Len(f.value) |-> UnifiedTrendingItem(f.value[i], "playwright")]) :
            f \in {FetcherCall(Api, "get_daily_trends", run)}} : TRUE

\* TrendsAPI.daily_trends_async, the client's call having ended as r
DailyTrendsAsync(r, run) ==
    IF r.error = ""
    THEN ApiReturn(Api, [i \in 1..Len(r.value) |-> UnifiedTrendingItem(r.value[i], "api")])
    ELSE IF ShouldFallback(config, r.error) THEN DailyTrendsPlaywright(run)
    ELSE ApiRaise(Api, r.error)

\* UnifiedInterestPoint(..., is_partial=p.is_partial, source="api")
UnifiedInterestPointApi(p) ==
    [date |-> p.date, value |-> p.value, formatted_value |-> p.formatted_value,
     is_partial |-> p.is_partial, source |-> "api"]

\* UnifiedInterestPoint(..., source="playwright"): is_partial by default
UnifiedInterestPointPlaywright(p) ==
    [date |-> p.date, value |-> p.value, formatted_value |-> p.formatted_value,
     is_partial |-> FALSE, source |-> "playwright"]

\* TrendsAPI._interest_over_time_playwright
InterestOverTimePlaywright(run) ==
    CHOOSE out \in
        {IF f.error # "" THEN ApiRaise(f.api, f.error)
         ELSE ApiReturn(f.api,
                [k \in 1..Len(f.value) |->
                    <<f.value[k][1],
                      [p \in 1..Len(f.value[k][2]) |->
                          UnifiedInterestPointPlaywright(f.value[k][2][p])]>>]) :
            f \in {FetcherCall(Api, "get_interest_over_time", run)}} : TRUE

\* TrendsAPI.interest_over_time_async
InterestOverTimeAsync(r, run) ==
    IF r.error = ""
    THEN ApiReturn(Api,
            [k \in 1..Len(r.value) |->
                <<r.value[k][1],
                  [p \in 1..Len(r.value[k][2]) |->
                      UnifiedInterestPointApi(r.value[k][2][p])]>>])
    ELSE IF ShouldFallback(config, r.error) THEN InterestOverTimePlaywright(run)
    ELSE ApiRaise(Api, r.error)

\* UnifiedRelatedQuery(query=q.query, value=q.value, link=q.link, source="api")
UnifiedRelatedQueryApi(q) ==
    [query |-> q.query, value |-> q.value, link |-> q.link, source |-> "api"]

\* UnifiedRelatedQuery(query=q["query"], value=q.get("value", 0),
\* link=q.get("link", ""), source="playwright")
UnifiedRelatedQueryPlaywright(q) ==
    [query |-> DictAt(q, "query"), value |-> DictGet(q, "value", 0),
     link |-> DictGet(q, "link", ""), source |-> "playwright"]

\* TrendsAPI._related_queries_playwright
RelatedQueriesPlaywright(run) ==
    CHOOSE out \in
        {IF f.error # "" THEN ApiRaise(f.api, f.error)
         ELSE ApiReturn(f.api,
                [k \in 1..Len(f.value) |->
                    <<f.value[k][1],
                      [q \in 1..Len(f.value[k][2]) |->
                          UnifiedRelatedQueryPlaywright(f.value[k][2][q])]>>]) :
            f \in {FetcherCall(Api, "get_related_queries", run)}} : TRUE

\* TrendsAPI.related_queries_async
RelatedQueriesAsync(r, run) ==
    IF r.error = ""
    THEN ApiReturn(Api,
            [k \in 1..Len(r.value) |->
                <<r.value[k][1],
                  [q \in 1..Len(r.value[k][2]) |->
                      UnifiedRelatedQueryApi(r.value[k][2][q])]>>])
    ELSE IF ShouldFallback(config, r.error) THEN RelatedQueriesPlaywright(run)
    ELSE ApiRaise(Api, r.error)

\* TrendsAPI.interest_by_region_async: the client's list, or the fetcher's,
\* as it is
InterestByRegionAsync(r, run) ==
    IF r.error = "" THEN ApiReturn(Api, r.value)
    ELSE IF ShouldFallback(config, r.error)
    THEN CHOOSE out \in
        {IF f.error # "" THEN ApiRaise(f.api, f.error)
         ELSE ApiReturn(f.api, f.value) :
            f \in {FetcherCall(Api, "get_interest_by_region", run)}} : TRUE
    ELSE ApiRaise(Api, r.error)

\* TrendsAPI.realtime_trends: the client's list; except GoogleTrendsError:
\* return []
RealtimeTrends(r) ==
    IF r.error = "" THEN ApiReturn(Api, r.value)
    ELSE IF r.error \in GoogleTrendsErrors THEN ApiReturn(Api, <<>>)
    ELSE ApiRaise(Api, r.error)

\* TrendsAPI.autocomplete: the client's list; except GoogleTrendsError:
\* return []
AutocompleteOrEmpty(r) ==
    IF r.error = "" THEN ApiReturn(Api, r.value)
    ELSE IF r.error \in GoogleTrendsErrors THEN ApiReturn(Api, <<>>)
    ELSE ApiRaise(Api, r.error)


----------------------------------------------------------------------------
(* Spec: calls on one TrendsAPI, constructed with any fallback policy, one *)
(* call after the other without a pause (SpecClient lets time pass between *)
(* the calls of the client). The service answers each request of the       *)
(* client; when a call turns to the fetcher, the browser sets up or not    *)
(* and the page shows something or not.                                    *)

\* the responses of an endpoint: too many requests, a server error, an
\* empty body, and its documents
ApiResponses(documents) ==
    [status : {429, 500}, body : {<<>>}]
        \cup [status : {200}, body : {<<>>} \cup {Prefixed(d) : d \in documents}]

\* the explore responses: widgets with their tokens, and without
ApiExploreResponses ==
    ApiResponses({"X_ALL", "X_NO_TOKEN"})

ApiDataResponses(found, documents) ==
    IF found THEN ApiResponses(documents) ELSE {NoResponse}

\* the policies a TrendsAPIConfig can hold
Configs ==
    [use_fallback : BOOLEAN, fallback_on_rate_limit : BOOLEAN,
     fallback_on_token_error : BOOLEAN]

\* TrendsAPI.__init__: a client that has sent nothing, no fetcher
Init ==
    /\ NoPure
    /\ now = MinRequestInterval
    /\ last_request_time = InitialLastRequestTime
    /\ sent = <<>>
    /\ call = NoCall
    /\ before = [last_request_time |-> InitialLastRequestTime, sent_at |-> -1]
    /\ outcome = NoOutcome
    /\ config \in Configs
    /\ api_client = NewApiClient
    /\ playwright_fetcher = "None"
    /\ playwright_initialized = FALSE
    /\ fetcher_log = <<>>
    /\ result = NoOutcome
    /\ loop = NoLoop
    /\ NoBrowser

\* the call turns to the fetcher
Falls(r) ==
    r.error # "" /\ ShouldFallback(config, r.error)

\* the constructions and set-ups of a Fetcher in the log of a call
Constructions(log) ==
    SelectSeq(log, LAMBDA step : step \in {"__init__", "_setup"})

\* the TrendsAPI object after a call that ended as done; browser_log holds
\* the constructions and set-ups since TrendsAPI.__init__ or the last close
ApiEnds(done) ==
    /\ playwright_fetcher' = done.api.playwright_fetcher
    /\ playwright_initialized' = done.api.playwright_initialized
    /\ fetcher_log' = done.api.fetcher_log
    /\ result' = [error |-> done.error, value |-> done.value]
    /\ fetcher' = done.api.fetcher
    /\ browser_log' = browser_log \o Constructions(done.api.fetcher_log)
    /\ UNCHANGED <<config, api_client, pending, fetched, pure_vars>>

\* a call awaited on the event loop of its caller
ApiAfter(done) ==
    /\ ApiEnds(done)
    /\ UNCHANGED loop

ApiDailyTrends ==
    /\ CanSend
    /\ \E response \in ApiResponses({"DOC_DAILY"} \cup ListDocuments) :
       \E r \in {GetDailyTrends(Client, response)} :
       \E run \in FetcherRuns(Falls(r), "get_daily_trends", <<>>) :
       \E done \in {DailyTrendsAsync(r, run)} :
          /\ ClientAfter("daily_trends", <<>>, "", r)
          /\ ApiAfter(done)

ApiInterestOverTime ==
    \E keywords \in {Keywords(1), Keywords(KeywordLimit + 1)} :
    \E explore_response \in
          IF OverLimit(keywords) THEN {NoResponse} ELSE ApiExploreResponses :
    \E data_response \in ApiDataResponses(
          ~OverLimit(keywords)
              /\ TokenFound(Client, keywords, "TIMESERIES", explore_response),
          {"DOC_MULTILINE"}) :
    \E r \in {GetInterestOverTime(Client, keywords,
                                  explore_response, data_response)} :
    \E run \in FetcherRuns(Falls(r), "get_interest_over_time", keywords) :
    \E done \in {InterestOverTimeAsync(r, run)} :
       /\ OverLimit(keywords) \/ CanSend
       /\ ClientAfter("interest_over_time", keywords, "", r)
       /\ ApiAfter(done)

ApiRelatedQueries ==
    /\ CanSend
    /\ \E explore_response \in ApiExploreResponses :
       \E data_response \in ApiDataResponses(
              TokenFound(Client, <<"k1">>, "RELATED_QUERIES", explore_response),
              {"DOC_RELATED"}) :
       \E r \in {GetRelatedQueries(Client, explore_response, data_response)} :
       \E run \in FetcherRuns(Falls(r), "get_related_queries", <<"k1">>) :
       \E done \in {RelatedQueriesAsync(r, run)} :
          /\ ClientAfter("related_queries", <<"k1">>, "", r)
          /\ ApiAfter(done)

ApiInterestByRegion ==
    /\ CanSend
    /\ \E explore_response \in ApiExploreResponses :
       \E data_response \in ApiDataResponses(
              TokenFound(Client, <<"k1">>, "GEO_MAP", explore_response),
              {"DOC_GEO"}) :
       \E r \in {GetInterestByRegion(Client, "COUNTRY",
                                      explore_response, data_response)} :
       \E run \in FetcherRuns(Falls(r), "get_interest_by_region", <<"k1">>) :
       \E done \in {InterestByRegionAsync(r, run)} :
          /\ ClientAfter("interest_by_region", <<"k1">>, "COUNTRY", r)
          /\ ApiAfter(done)

ApiRealtimeTrends ==
    /\ CanSend
    /\ \E response \in ApiResponses({"DOC_REALTIME"} \cup ListDocuments) :
       \E r \in {GetRealtimeTrends(Client, response)} :
       \E done \in {RealtimeTrends(r)} :
          /\ ClientAfter("realtime_trends", <<>>, "", r)
          /\ ApiAfter(done)

ApiAutocomplete ==
    /\ CanSend
    /\ \E response \in ApiResponses({"DOC_AUTOCOMPLETE"} \cup ListDocuments) :
       \E r \in {Autocomplete(Client, response)} :
       \E done \in {AutocompleteOrEmpty(r)} :
          /\ ClientAfter("autocomplete", <<>>, "", r)
          /\ ApiAfter(done)

Next ==
    \/ ApiDailyTrends
    \/ ApiInterestOverTime
    \/ ApiRelatedQueries
    \/ ApiInterestByRegion
    \/ ApiRealtimeTrends
    \/ ApiAutocomplete

Spec == Init /\ [][Next]_vars


\* the operations of the Orchestrator that can turn to the fetcher
DataOperations ==
    {"daily_trends", "interest_over_time", "related_queries", "interest_by_region"}

\* the records of the value the last call returned: the items of a list,
\* the items of every list of a dict
ResultRecords ==
    IF call.op \in {"interest_over_time", "related_queries"}
    THEN Concat([k \in 1..Len(result.value) |-> result.value[k][2]])
    ELSE result.value

\* the operations of the fetcher the last call called
FetcherOperations ==
    SelectSeq(fetcher_log, LAMBDA event : event \notin {"__init__", "_setup"})

\* every record the last call returned is a record with this source tag
AllTagged(source) ==
    \A i \in 1..Len(ResultRecords) :
        /\ "source" \in DOMAIN ResultRecords[i]
        /\ ResultRecords[i].source = source

\* C1: when the client raises RateLimitError inside a data operation of an
\* Orchestrator whose fallback is enabled: with fallback_on_rate_limit true
\* the fetcher is invoked exactly once (one operation of it, unless its
\* set-up raised) and the records returned carry the source tag
\* "playwright"; with fallback_on_rate_limit false the RateLimitError is
\* raised to the caller and the fetcher is neither constructed nor invoked.
C1_RateLimitFallbackByFlag ==
    (call.op \in DataOperations /\ outcome.error = "RateLimitError"
        /\ config.use_fallback) =>
        IF config.fallback_on_rate_limit
        THEN /\ Len(FetcherOperations) = 1 \/ result.error = "PlaywrightError"
             /\ result.error = "" => AllTagged("playwright")
        ELSE /\ result.error = "RateLimitError"
             /\ fetcher_log = <<>>


----------------------------------------------------------------------------
(* Claims on the requests of a token-gated call (SpecClient).              *)

\* the data endpoint of a token-gated operation
DataUrlOf(op) ==
    CASE op = "get_interest_over_time" -> MultilineUrl
      [] op = "get_interest_by_region" -> ComparedGeoUrl
      [] OTHER -> RelatedUrl

\* the widget of a token response the operation takes its token from: the
\* first of the needed type that carries a token
TokenWidget(body, type) ==
    DictAt(ParseResponse(body).value, "widgets")[Min(WidgetsWithToken(body, type))]

\* the echoed request of a widget without its userConfig item, every other
\* item as it was and where it was
EchoedWithoutUserConfig(widget) ==
    SelectSeq(DictGet(widget, "request", <<>>), LAMBDA item : item[1] # "userConfig")

\* the last call is a token-gated call that got as far as the network
GatedCallSent ==
    NeededWidget(call.op) # "" /\ sent # <<>>

\* the explore request of the last call failed: a status outside 2xx, or a
\* body that is no JSON
ExploreFailed ==
    sent[1].status \notin 200..299 \/ ~ParseResponse(sent[1].body).ok

\* the requests of the last call are one explore request, followed by one
\* data request exactly when the token response holds the token needed; the
\* data request goes to the operation's endpoint with that token
ExploreThenData ==
    /\ sent[1].url = ExploreUrl
    /\ Len(sent) <= 2
    /\ ExploreFailed => Len(sent) = 1
    /\ (~ExploreFailed /\ WidgetsWithToken(sent[1].body, NeededWidget(call.op)) # {})
          <=> Len(sent) = 2
    /\ Len(sent) = 2 =>
          /\ sent[2].url = DataUrlOf(call.op)
          /\ DictGet(sent[2].params, "token", "") =
                DictGet(TokenWidget(sent[1].body, NeededWidget(call.op)), "token", "")

ExpectedRequestData ==
    LET echoed == EchoedWithoutUserConfig(
                      TokenWidget(sent[1].body, NeededWidget(call.op)))
    IN  IF call.op = "get_interest_by_region"
        THEN [i \in 1..Len(echoed) |->
                IF echoed[i][1] = "resolution"
                THEN <<"resolution", call.resolution>> ELSE echoed[i]]
             \o (IF \E i \in 1..Len(echoed) : echoed[i][1] = "resolution"
                 THEN <<>> ELSE <<<<"resolution", call.resolution>>>>)
        ELSE echoed

----------------------------------------------------------------------------
(* The Browser Fetcher at work: its warmup, its navigation, its data       *)
(* operations.                                                             *)

\* the ways one run of the warmup can go: every step succeeds; the listing
\* shows no row to click; or one step raises
WarmupWays ==
    {"smooth", "no_rows", "goto", "consent", "mouse.move", "scroll",
     "click", "go_back"}

\* the data response intercepted during a warmup: none, or one of a
\* time series, of related queries, or a chunk of the new endpoint
WarmupBuckets ==
    {"none", "multiline", "relatedsearches", "batchexecute"}

\* the browser steps of _warmup_session that precede the click on a row
WarmupCoreSteps ==
    <<"goto", "consent", "mouse.move", "scroll">>

\* _warmup_session: the steps of the inner try block
WarmupClickSteps ==
    <<"click", "go_back">>

\* _warmup_session, the page taking it the way given. The flag is read
\* outside the try block. _accept_cookie_consent catches what its selectors
\* raise; the click and the way back are in a try block of their own; any
\* other step that raises leaves through the outer except, past the
\* assignment of the flag. Without a usable page the first step raises.
WarmupSession(f, way) ==
    IF f.session_warmed_up = "unset"
    THEN [f |-> f, log |-> <<>>, error |-> "AttributeError"]
    ELSE IF f.session_warmed_up = "True"
    THEN [f |-> f, log |-> <<>>, error |-> ""]
    ELSE IF f.page # "open" \/ way = "goto"
    THEN [f |-> f, log |-> <<"goto">>, error |-> ""]
    ELSE IF way \in {"mouse.move", "scroll"}
    THEN [f |-> f, log |-> StepsUpTo(WarmupCoreSteps, way), error |-> ""]
    ELSE [f |-> [f EXCEPT !.session_warmed_up = "True"],
          log |-> WarmupCoreSteps
                    \o (IF way = "no_rows" THEN <<>>
                        ELSE StepsUpTo(WarmupClickSteps, way)),
          error |-> ""]

RECURSIVE Pow2(_)
\* 2 ** attempt
Pow2(n) ==
    IF n = 0 THEN 1 ELSE 2 * Pow2(n - 1)

RECURSIVE NavigateFrom(_, _, _, _)
\* _navigate_with_retry, from the attempt given on: outcomes[k + 1] tells
\* whether page.goto of attempt k returns. A failed attempt that is not the
\* last sleeps 2 ** attempt seconds; the last one raises NavigationError;
\* a loop that runs out returns False
NavigateFrom(attempt, max_retries, outcomes, sleeps) ==
    IF attempt >= max_retries
    THEN [error |-> "", value |-> FALSE, attempts |-> attempt, sleeps |-> sleeps]
    ELSE IF outcomes[attempt + 1]
    THEN [error |-> "", value |-> TRUE, attempts |-> attempt + 1, sleeps |-> sleeps]
    ELSE IF attempt < max_retries - 1
    THEN NavigateFrom(attempt + 1, max_retries, outcomes,
                      Append(sleeps, Pow2(attempt)))
    ELSE [error |-> "NavigationError", value |-> FALSE,
          attempts |-> attempt + 1, sleeps |-> sleeps]

\* PlaywrightTrendsFetcher._navigate_with_retry
NavigateWithRetry(max_retries, outcomes) ==
    NavigateFrom(0, max_retries, outcomes, <<>>)

----------------------------------------------------------------------------
(* SpecNavigate: _navigate_with_retry with every maximum up to MaxRetries  *)
(* and every way its attempts can go.                                      *)

MaxRetries == 5

InitNavigate ==
    /\ NoEngine
    /\ \E max_retries \in 0..MaxRetries :
       \E outcomes \in [1..max_retries -> BOOLEAN] :
          arg = [max_retries |-> max_retries, outcomes |-> outcomes]
    /\ ret = <<>>

Navigate ==
    /\ ret = <<>>
    /\ ret' = <<NavigateWithRetry(arg.max_retries, arg.outcomes)>>
    /\ UNCHANGED <<arg, engine_vars>>

SpecNavigate == InitNavigate /\ [][Navigate]_vars


\* C15 (as stated): navigation with retry makes at most max_retries
\* attempts; it returns True at the first attempt that succeeds and makes no
\* further attempt; after the failed attempt k (from 0) that is not the last
\* it waits 2^k seconds; when every attempt fails, for every maximum (0 and
\* 1 included), it raises NavigationError and returns no value.
C15_RetryBackoffThenNavigationError ==
    ret # <<>> =>
        LET r == ret[1]
            succeeding == {k \in 1..arg.max_retries : arg.outcomes[k]}
        IN  /\ r.attempts <= arg.max_retries
            /\ succeeding # {} =>
                  /\ r.error = "" /\ r.value = TRUE
                  /\ r.attempts = Min(succeeding)
            /\ Len(r.sleeps) = IF r.attempts = 0 THEN 0 ELSE r.attempts - 1
            /\ \A k \in 1..Len(r.sleeps) : r.sleeps[k] = 2 ^ (k - 1)
            /\ succeeding = {} => r.error = "NavigationError"


----------------------------------------------------------------------------
(* get_interest_over_time of the Fetcher: the four extraction methods.     *)

\* results = {kw: [] for kw in keywords}
NoPoints(keywords) ==
    [kw \in {keywords[i] : i \in 1..Len(keywords)} |-> <<>>]

\* the position of a keyword in the list (the keywords of a call differ)
KeywordIndex(keywords, kw) ==
    CHOOSE i \in 1..Len(keywords) : keywords[i] = kw

RECURSIVE TimelineOfBucket(_, _, _, _)
\* the loop over a timeline (a list of dicts): keyword number i gets
\* values[i] of every point that has that many values; with_formatted tells
\* whether formattedValue is read
TimelineOfBucket(results, timeline, keywords, with_formatted) ==
    IF timeline = <<>> THEN results
    ELSE LET point == Head(timeline)
             values == DictGet(point, "value", <<>>)
             formatted == DictGet(point, "formattedValue", <<>>)
             added == [kw \in DOMAIN results |->
                 LET i == KeywordIndex(keywords, kw)
                 IN  IF i <= Len(values)
                     THEN Append(results[kw],
                            [date |-> DictGet(point, "formattedTime", ""),
                             value |-> values[i],
                             formatted_value |->
                                IF with_formatted /\ i <= Len(formatted)
                                THEN formatted[i] ELSE ""])
                     ELSE results[kw]]
         IN  TimelineOfBucket(added, Tail(timeline), keywords, with_formatted)

\* method 1: the multiline bucket, when there is one
FromMultiline(intercepted_data, keywords) ==
    IF DictHas(intercepted_data, "multiline")
    THEN TimelineOfBucket(NoPoints(keywords),
            GetNested(DictAt(intercepted_data, "multiline"), "default", "timelineData"),
            keywords, TRUE)
    ELSE NoPoints(keywords)

\* method 2: _parse_batchexecute_timeline over the batchexecute bucket
FromBatchexecute(intercepted_data, keywords) ==
    ParseBatchexecuteTimeline(DictGet(intercepted_data, "batchexecute", <<>>), keywords)

\* what page.evaluate gives _scrape_interest_chart: it raises, it finds no
\* timeline in the scripts of the page (null), or it finds one
ScrapedNothing == [raises |-> FALSE, timeline |-> <<>>]

\* method 3: _scrape_interest_chart
ScrapeInterestChart(scraped, keywords) ==
    IF scraped.raises THEN NoPoints(keywords)
    ELSE TimelineOfBucket(NoPoints(keywords), scraped.timeline, keywords, FALSE)

\* f"Week {i+1}"
WeekName(i) ==
    "Week " \o ToString(i)

\* chart_values[:52]
MaxWeeks == 52

\* method 4: _extract_chart_data_from_page, the page holding this many
\* chart values (-1: page.evaluate raises)
ExtractChartDataFromPage(chart_values, keywords) ==
    IF chart_values <= 0 THEN NoPoints(keywords)
    ELSE [kw \in DOMAIN NoPoints(keywords) |->
            [i \in 1..(IF chart_values > MaxWeeks THEN MaxWeeks ELSE chart_values) |->
                InterestDataPoint(WeekName(i), 50)]]

\* the methods tried with scraping before the decoding of the chunks
MethodsScrapingFirst(intercepted_data, scraped, chart_values, keywords) ==
    CHOOSE out \in
        {IF AnyPoints(m1) THEN [results |-> m1, ran |-> <<1>>]
         ELSE IF AnyPoints(m3) THEN [results |-> m3, ran |-> <<1, 3>>]
         ELSE IF AnyPoints(m2) THEN [results |-> m2, ran |-> <<1, 3, 2>>]
         ELSE [results |-> m4, ran |-> <<1, 3, 2, 4>>] :
            m1 \in {FromMultiline(intercepted_data, keywords)},
            m2 \in {FromBatchexecute(intercepted_data, keywords)},
            m3 \in {ScrapeInterestChart(scraped, keywords)},
            m4 \in {ExtractChartDataFromPage(chart_values, keywords)}} : TRUE

\* get_interest_over_time, after the navigation: method 1, then each next
\* method if not any(results.values()) (method 2 also needs its bucket);
\* ran lists the methods that ran
InterestMethods(intercepted_data, scraped, chart_values, keywords) ==
    CHOOSE out \in
        {IF AnyPoints(m1) THEN [results |-> m1, ran |-> <<1>>]
         ELSE IF DictHas(intercepted_data, "batchexecute") /\ AnyPoints(m2)
         THEN [results |-> m2, ran |-> <<1, 2>>]
         ELSE IF AnyPoints(m3)
         THEN [results |-> m3,
               ran |-> IF DictHas(intercepted_data, "batchexecute")
                       THEN <<1, 2, 3>> ELSE <<1, 3>>]
         ELSE [results |-> m4,
               ran |-> IF DictHas(intercepted_data, "batchexecute")
                       THEN <<1, 2, 3, 4>> ELSE <<1, 3, 4>>] :
            m1 \in {FromMultiline(intercepted_data, keywords)},
            m2 \in {FromBatchexecute(intercepted_data, keywords)},
            m3 \in {ScrapeInterestChart(scraped, keywords)},
            m4 \in {ExtractChartDataFromPage(chart_values, keywords)}} : TRUE


----------------------------------------------------------------------------
(* SpecExtract: the methods of get_interest_over_time over what the        *)
(* buckets and the page can hold after the navigation.                     *)

\* a chunk of the batchexecute bucket that holds a timeline
TimelineChunk ==
    PrefixQuoteNewline \o <<"{", KeyTimelineData, ":">>
        \o RenderTimeline(<<[time |-> "Jan 1", has_value |-> TRUE, value |-> <<50>>]>>)
        \o <<"}", "\n">>

\* the buckets the methods read: the multiline bucket missing, without a
\* timeline or with one; the batchexecute bucket missing, empty, with a
\* chunk that holds no timeline or with one that does
InterceptedTimelines ==
    {multiline \o batchexecute :
        multiline \in {<<>>, <<<<"multiline", Document("{}")>>>>,
                       <<<<"multiline", Document("DOC_MULTILINE")>>>>},
        batchexecute \in {<<>>, <<<<"batchexecute", <<>>>>>>,
                          <<<<"batchexecute", <<<<"x", "\n">>>>>>>>,
                          <<<<"batchexecute", <<TimelineChunk>>>>>>}}

\* what the scripts of the page give the scraper
ScrapedTimelines ==
    {[raises |-> TRUE, timeline |-> <<>>], ScrapedNothing,
     [raises |-> FALSE,
      timeline |-> <<<<<<"formattedTime", "Feb 2">>, <<"value", <<9, 8>>>>>>>>]}

\* the chart values of the page: page.evaluate raises, none, some
MaxChartValues == 2

InitExtract ==
    /\ NoEngine
    /\ arg \in [keywords : {<<"k1">>, <<"k1", "k2">>},
                intercepted_data : InterceptedTimelines,
                scraped : ScrapedTimelines,
                chart_values : {-1, 0, MaxChartValues}]
    /\ ret = [done |-> FALSE, results |-> <<>>, ran |-> <<>>]

\* get_interest_over_time, from the first method to its return
ExtractInterest ==
    /\ ~ret.done
    /\ \E out \in {InterestMethods(arg.intercepted_data, arg.scraped,
                                   arg.chart_values, arg.keywords)} :
          ret' = [done |-> TRUE, results |-> out.results, ran |-> out.ran]
    /\ UNCHANGED <<arg, engine_vars>>

SpecExtract == InitExtract /\ [][ExtractInterest]_vars

\* what each method yields on its own for the input, in the order of the
\* claim: bucket of the time series, decoding of the chunks, scraping of
\* the scripts, state of the page
MethodYields ==
    <<FromMultiline(arg.intercepted_data, arg.keywords),
      FromBatchexecute(arg.intercepted_data, arg.keywords),
      ScrapeInterestChart(arg.scraped, arg.keywords),
      ExtractChartDataFromPage(arg.chart_values, arg.keywords)>>

\* C16: the methods of the Fetcher's interest over time run in the order 1
\* (time-series bucket), 2 (decoding of the chunks), 3 (scraping), 4 (page
\* state); the result is that of the first method in this order that yields
\* a point, no later method runs, and when none yields a point every
\* keyword asked for maps to an empty list.
C16_FirstYieldingMethodWins ==
    ret.done =>
        LET yielding == {i \in 1..4 : AnyPoints(MethodYields[i])}
        IN  /\ \A i \in 1..(Len(ret.ran) - 1) : ret.ran[i] < ret.ran[i + 1]
            /\ yielding # {} =>
                  /\ ret.results = MethodYields[Min(yielding)]
                  /\ ret.ran[Len(ret.ran)] = Min(yielding)
            /\ yielding = {} =>
                  /\ DOMAIN ret.results = {arg.keywords[i] : i \in 1..Len(arg.keywords)}
                  /\ \A kw \in DOMAIN ret.results : ret.results[kw] = <<>>

\* C16 witness: both buckets are there and yield nothing, the scraper and
\* the state of the page both yield points: the result is the scraper's and
\* the methods that ran are 1, 2, 3.
C16_WitnessScraperWins ==
    /\ ret.done
    /\ DictHas(arg.intercepted_data, "multiline")
    /\ DictHas(arg.intercepted_data, "batchexecute")
    /\ AnyPoints(MethodYields[3]) /\ AnyPoints(MethodYields[4])
    /\ ret.ran = <<1, 2, 3>>
    /\ ret.results = MethodYields[3]


----------------------------------------------------------------------------
(* The data operations of the Fetcher. A response is known by the bucket   *)
(* its URL selects and by the operation whose navigation caused it; what a *)
(* bucket holds is the response (for batchexecute: the responses) stored.  *)

\* the bucket each data operation reads first
BucketOf(op) ==
    CASE op = "get_daily_trends" -> "dailytrends"
      [] op = "get_interest_over_time" -> "multiline"
      [] op = "get_related_queries" -> "relatedsearches"
      [] op = "get_interest_by_region" -> "comparedgeo"

\* _handle_response: a batchexecute body is appended to the list of its
\* bucket, the parsed body of any other endpoint replaces what its bucket
\* held
HandleResponse(f, response) ==
    [f EXCEPT !.intercepted_data =
        IF response.bucket = "batchexecute"
        THEN DictSet(@, "batchexecute",
                     Append(DictGet(@, "batchexecute", <<>>), response))
        ELSE DictSet(@, response.bucket, response)]

RECURSIVE HandleResponses(_, _)
\* the callbacks of these responses, in their order
HandleResponses(f, responses) ==
    IF responses = <<>> THEN f
    ELSE HandleResponses(HandleResponse(f, Head(responses)), Tail(responses))

RECURSIVE InSomeOrder(_)
\* the responses of a set, one after the other
InSomeOrder(responses) ==
    IF responses = {} THEN <<>>
    ELSE LET first == CHOOSE r \in responses : TRUE
         IN  <<first>> \o InSomeOrder(responses \ {first})

\* self._intercepted_data.clear()
ClearBuckets(f) ==
    [f EXCEPT !.intercepted_data = <<>>]

\* the callbacks that run while an operation waits for its page: responses
\* of earlier navigations that were still on their way (stale), and the
\* response of its own navigation (own, none when it comes too late or not
\* at all); stale_last tells which callback runs last
Arrivals(stale, own, stale_last) ==
    IF stale_last THEN own \o InSomeOrder(stale) ELSE InSomeOrder(stale) \o own

\* the responses a bucket holds
Held(f, bucket) ==
    IF ~DictHas(f.intercepted_data, bucket) THEN {}
    ELSE IF bucket = "batchexecute"
    THEN {DictAt(f.intercepted_data, bucket)[i] :
            i \in 1..Len(DictAt(f.intercepted_data, bucket))}
    ELSE {DictAt(f.intercepted_data, bucket)}

\* an operation of the Fetcher ends: the Fetcher it leaves, what it did with
\* the browser, the error it raises or the value it returns, and the
\* responses the value was read from
FetcherRaise(f, log, error) ==
    [f |-> f, log |-> log, error |-> error, value |-> "", read |-> {}]

FetcherReturn(f, log, value, read) ==
    [f |-> f, log |-> log, error |-> "", value |-> value, read |-> read]

\* max_retries of _navigate_with_retry, by default
DefaultMaxRetries == 3

\* page.goto once for each attempt of a navigation; every attempt raised
\* but the last of a navigation that succeeded
Gotos(nav) ==
    [i \in 1..nav.attempts |->
        IF i = nav.attempts /\ nav.error = "" THEN "goto" ELSE "goto.raised"]

\* the end of an operation that reads one bucket and scrapes the page when
\* the bucket gave nothing (scrapes: the operation has such a fallback;
\* scraped: the page shows items to the scraper)
BucketOrScrape(f, log, bucket, scrapes, scraped) ==
    IF Held(f, bucket) # {}
    THEN FetcherReturn(f, log, "bucket", Held(f, bucket))
    ELSE IF scrapes /\ scraped /\ f.page = "open"
    THEN FetcherReturn(f, Append(log, "scrape"), "scraped", {})
    ELSE FetcherReturn(f, IF scrapes THEN Append(log, "scrape") ELSE log, "empty", {})


\* what the browser does to one data operation: the way its warmup goes,
\* whether each attempt of its navigation succeeds, whether the response of
\* its navigation is intercepted in time and whether it is a batchexecute
\* response (of get_interest_over_time), the responses of earlier
\* navigations that arrive meanwhile, which callback runs last, and whether
\* the page shows items to a scraper. A prompt browser answers before the
\* operation reads, or never, and its listing page asks for no data of a
\* keyword; with another browser the warmup may see one data response
BrowserWays(f, op, in_flight, prompt) ==
    [way : IF op # "get_daily_trends" /\ f.session_warmed_up = "False"
              /\ f.page = "open"
           THEN WarmupWays ELSE {"smooth"},
     warmup : IF op # "get_daily_trends" /\ f.session_warmed_up = "False"
                 /\ f.page = "open" /\ ~prompt
              THEN WarmupBuckets ELSE {"none"},
     navigates : IF f.page = "open" THEN BOOLEAN ELSE {FALSE},
     own : IF prompt THEN {"in_time", "none"}
           ELSE {"in_time", "late", "none"},
     rpc : IF op = "get_interest_over_time" THEN BOOLEAN ELSE {FALSE},
     stale : SUBSET in_flight,
     stale_last : IF in_flight = {} THEN {FALSE} ELSE BOOLEAN,
     scraped : BOOLEAN]

\* the callback of the response the warmup saw, when its visit of the
\* listing page got as far as the page (the response of a warmup is of no
\* data operation: 0)
WarmupIntercepted(f, log, way) ==
    IF way.warmup = "none" \/ Len(log) <= 1 THEN f
    ELSE HandleResponse(f, [bucket |-> way.warmup, op |-> 0])

\* the attempts of a navigation that succeeds at once, or never
Attempts(navigates) ==
    [i \in 1..DefaultMaxRetries |-> navigates]

\* the response to the navigation of the n-th data operation
Response(op, n, rpc) ==
    [bucket |-> IF rpc THEN "batchexecute" ELSE BucketOf(op), op |-> n]

\* the callbacks that run between the navigation of the n-th data
\* operation and its reading of the buckets
Intercepted(f, op, n, way) ==
    HandleResponses(f,
        Arrivals(way.stale,
                 IF way.navigates /\ way.own = "in_time"
                 THEN <<Response(op, n, way.rpc)>> ELSE <<>>,
                 way.stale_last))

\* the responses still on their way when the n-th data operation ends
InFlightAfter(in_flight, op, n, way, navigated) ==
    IF ~navigated THEN in_flight
    ELSE (in_flight \ way.stale)
            \cup (IF way.navigates /\ way.own = "late"
                  THEN {Response(op, n, way.rpc)} ELSE {})

\* PlaywrightTrendsFetcher.get_daily_trends (n-th data operation)
FetchDailyTrends(f, n, way) ==
    LET op == "get_daily_trends"
        cleared == ClearBuckets(f)
        nav == NavigateWithRetry(DefaultMaxRetries, Attempts(way.navigates))
    IN  IF nav.error # ""
        THEN FetcherRaise(cleared, Gotos(nav), nav.error)
        ELSE BucketOrScrape(Intercepted(cleared, op, n, way),
                            Gotos(nav), BucketOf(op), TRUE, way.scraped)

\* page.set_extra_http_headers, then _navigate_with_retry, of
\* get_related_queries and get_interest_by_region
ExploreWithReferer(f, op, n, way, log, scrapes) ==
    IF f.page = "None"
    THEN FetcherRaise(f, log, "AttributeError")
    ELSE IF f.page # "open"
    THEN FetcherRaise(f, Append(log, "set_extra_http_headers"), "PlaywrightError")
    ELSE LET nav == NavigateWithRetry(DefaultMaxRetries, Attempts(way.navigates))
             done == log \o <<"set_extra_http_headers">> \o Gotos(nav)
         IN  IF nav.error # ""
             THEN FetcherRaise(f, done, nav.error)
             ELSE BucketOrScrape(Intercepted(f, op, n, way), done,
                                 BucketOf(op), scrapes, way.scraped)

\* the warmup of a data operation, its steps marked as such
WarmupLog(log) ==
    [i \in 1..Len(log) |-> "warmup." \o log[i]]

\* PlaywrightTrendsFetcher.get_related_queries (n-th data operation)
FetchRelatedQueries(f, n, way) ==
    LET warm == WarmupSession(ClearBuckets(f), way.way)
    IN  IF warm.error # ""
        THEN FetcherRaise(warm.f, WarmupLog(warm.log), warm.error)
        ELSE ExploreWithReferer(WarmupIntercepted(warm.f, warm.log, way),
                                "get_related_queries", n, way,
                                WarmupLog(warm.log), TRUE)

\* PlaywrightTrendsFetcher.get_interest_by_region (n-th data operation)
FetchInterestByRegion(f, n, way) ==
    LET warm == WarmupSession(ClearBuckets(f), way.way)
    IN  IF warm.error # ""
        THEN FetcherRaise(warm.f, WarmupLog(warm.log), warm.error)
        ELSE ExploreWithReferer(WarmupIntercepted(warm.f, warm.log, way),
                                "get_interest_by_region", n, way,
                                WarmupLog(warm.log), FALSE)

\* get_interest_over_time: the batchexecute bucket is reset after the warmup
ResetBatchexecute(f) ==
    IF DictHas(f.intercepted_data, "batchexecute")
    THEN [f EXCEPT !.intercepted_data = DictSet(@, "batchexecute", <<>>)]
    ELSE f

\* get_interest_over_time: the buckets and the page, in the order of its
\* four methods (scraping the page and reading its chart are one here)
InterestFromBuckets(f, log, scraped) ==
    IF Held(f, "multiline") # {}
    THEN FetcherReturn(f, log, "bucket", Held(f, "multiline"))
    ELSE IF Held(f, "batchexecute") # {}
    THEN FetcherReturn(f, log, "bucket", Held(f, "batchexecute"))
    ELSE IF scraped /\ f.page = "open"
    THEN FetcherReturn(f, Append(log, "scrape"), "scraped", {})
    ELSE FetcherReturn(f, Append(log, "scrape"), "empty", {})

\* PlaywrightTrendsFetcher.get_interest_over_time (n-th data operation):
\* whatever its navigation raises is caught
FetchInterestOverTime(f, n, keywords, way) ==
    IF FetcherOverLimit(keywords)
    THEN FetcherRaise(f, <<>>, "ValueError")
    ELSE LET warm == WarmupSession(ClearBuckets(f), way.way)
         IN  IF warm.error # ""
             THEN FetcherRaise(warm.f, WarmupLog(warm.log), warm.error)
             ELSE InterestFromBuckets(
                     Intercepted(ResetBatchexecute(
                                     WarmupIntercepted(warm.f, warm.log, way)),
                                 "get_interest_over_time", n, way),
                     IF f.page = "None" THEN WarmupLog(warm.log)
                     ELSE Append(WarmupLog(warm.log),
                                 IF way.navigates THEN "goto"
                                 ELSE "goto.raised"),
                     way.scraped)


----------------------------------------------------------------------------
(* The Browser Fetcher on its own: one PlaywrightTrendsFetcher, set up,    *)
(* used and torn down by its caller, and the browser behind it.            *)

\* the calls of one behaviour
MaxOperations == 3

\* the keywords of a call of get_interest_over_time: one, or one too many
FetcherKeywords ==
    {Keywords(1), Keywords(KeywordLimit + 1)}

\* the navigations to the listing page that a warmup made
WarmupNavigations(log) ==
    SelectSeq(log, LAMBDA step : step = "warmup.goto")

\* what a call leaves in the variables of the Fetcher; browser_log holds the
\* warmup navigations since the last _setup or _cleanup
FetcherAfter(op, keywords, raising, r, in_flight) ==
    /\ fetched.n < MaxOperations
    /\ fetcher' = r.f
    /\ pending' = in_flight
    /\ browser_log' = IF op \in {"_setup", "_cleanup"} THEN <<>>
                      ELSE browser_log \o WarmupNavigations(r.log)
    /\ fetched' = [op |-> op, n |-> fetched.n + 1, keywords |-> keywords,
                   error |-> r.error, value |-> r.value, found |-> fetcher,
                   read |-> r.read, raising |-> raising, log |-> r.log]
    /\ UNCHANGED <<client_vars, orchestrator_vars, pure_vars>>

\* the responses on their way after a data operation
StillInFlight(op, way, r) ==
    InFlightAfter(pending, op, fetched.n + 1, way,
                  r.error = "" \/ r.error = "NavigationError")

\* a call of one of the four data operations
DataOperation(op, keywords, way) ==
    \E r \in {CASE op = "get_daily_trends" ->
                    FetchDailyTrends(fetcher, fetched.n + 1, way)
                [] op = "get_interest_over_time" ->
                    FetchInterestOverTime(fetcher, fetched.n + 1, keywords, way)
                [] op = "get_related_queries" ->
                    FetchRelatedQueries(fetcher, fetched.n + 1, way)
                [] op = "get_interest_by_region" ->
                    FetchInterestByRegion(fetcher, fetched.n + 1, way)} :
        FetcherAfter(op, keywords, {}, r, StillInFlight(op, way, r))

InitFetcher ==
    /\ NoPure /\ NoApi /\ NoBrowser

\* __aenter__: _setup, on a Fetcher that holds no browser
FetcherSetup ==
    /\ fetcher.playwright = "None"
    /\ \E fail_at \in SetupFailures :
        \E r \in {Setup(fetcher, fail_at)} :
            FetcherAfter("_setup", <<>>, {},
                         [f |-> r.f, log |-> r.log, error |-> r.error,
                          value |-> "", read |-> {}], {})

\* __aexit__: _cleanup; the release steps in raising raise
FetcherCleanup ==
    \E raising \in ReleaseFailures :
        \E r \in {Cleanup(fetcher, raising)} :
            FetcherAfter("_cleanup", <<>>, raising,
                         [f |-> r.f, log |-> r.log, error |-> r.error,
                          value |-> "", read |-> {}], {})

\* the page crashes or is closed from outside
PageCloses ==
    /\ fetcher.page = "open"
    /\ fetcher' = [fetcher EXCEPT !.page = "closed"]
    /\ UNCHANGED <<pending, browser_log, fetched>>
    /\ UNCHANGED <<client_vars, orchestrator_vars, pure_vars>>

FetcherGetDailyTrends ==
    \E way \in BrowserWays(fetcher, "get_daily_trends", {}, TRUE) :
        DataOperation("get_daily_trends", <<>>, way)

FetcherGetInterestOverTime ==
    \E keywords \in FetcherKeywords :
        \E way \in BrowserWays(fetcher, "get_interest_over_time", {}, TRUE) :
            DataOperation("get_interest_over_time", keywords, way)

FetcherGetRelatedQueries ==
    \E way \in BrowserWays(fetcher, "get_related_queries", {}, TRUE) :
        DataOperation("get_related_queries", <<>>, way)

FetcherGetInterestByRegion ==
    \E way \in BrowserWays(fetcher, "get_interest_by_region", {}, TRUE) :
        DataOperation("get_interest_by_region", <<>>, way)

NextFetcher ==
    \/ FetcherSetup
    \/ FetcherCleanup
    \/ PageCloses
    \/ FetcherGetDailyTrends
    \/ FetcherGetInterestOverTime
    \/ FetcherGetRelatedQueries
    \/ FetcherGetInterestByRegion

\* every response is answered before the operation reads, or never
SpecFetcher == InitFetcher /\ [][NextFetcher]_vars


\* the positions of a step in a log
Positions(log, step) ==
    {i \in 1..Len(log) : log[i] = step}

\* the steps of a log are steps of a list, each once, in the order of the list
InOrderOf(log, steps) ==
    \A i \in 1..Len(log) :
        /\ StepIndex(steps, log[i]) > 0
        /\ \A j \in 1..Len(log) :
            i < j => StepIndex(steps, log[i]) < StepIndex(steps, log[j])

\* C12: a teardown calls the release of everything the Fetcher holds (page,
\* then context, then browser, then the driver), in that order, whichever of
\* these releases raise; it raises nothing; after it the Fetcher refers to
\* no page, context, browser or driver.
C12_TeardownReleasesAllInOrder ==
    fetched.op = "_cleanup" =>
        /\ \A i \in 1..Len(ReleaseSteps) :
            Releases(fetched.found, ReleaseSteps[i])
                => Positions(fetched.log, ReleaseSteps[i]) # {}
        /\ InOrderOf(fetched.log, ReleaseSteps)
        /\ fetched.error = ""
        /\ fetcher.page = "None" /\ fetcher.context = "None"
        /\ fetcher.browser = "None" /\ fetcher.playwright = "None"

\* C12 witness: the teardown of a Fetcher that holds everything; closing the
\* page raises, the context and the browser are closed all the same
C12_WitnessPageCloseRaises ==
    /\ fetched.op = "_cleanup"
    /\ fetched.found.page = "open" /\ fetched.found.browser = "open"
    /\ "page.close" \in fetched.raising
    /\ fetched.log = ReleaseSteps
    /\ fetcher.browser = "None"


\* C13: between a _setup and the next _cleanup, the warmup navigates to the listing
\* page at most once, whatever data operations are called and however the
\* first warmup went.
C13_WarmupNavigatesAtMostOnce ==
    Len(browser_log) <= 1

\* C14: in a warmup whose navigation to the listing page succeeded (its
\* consent step was reached), a later step that raises stops nothing: the
\* pointer movement and the scroll still run and the session ends warmed up.
C14_LaterWarmupFailuresIgnored ==
    Positions(fetched.log, "warmup.consent") # {} =>
        /\ \A i \in 1..Len(WarmupCoreSteps) :
            Positions(fetched.log, "warmup." \o WarmupCoreSteps[i]) # {}
        /\ fetcher.session_warmed_up = "True"


----------------------------------------------------------------------------
(* The interception of responses: a Fetcher set up and warmed up, whose    *)
(* browser may deliver a response after the operation that caused it has   *)
(* returned.                                                               *)

\* the data operations of one behaviour
MaxIntercepts == 2

\* a Fetcher after _setup and a first warmup
WarmedUpFetcher ==
    [Setup(NewFetcher, "none").f EXCEPT !.session_warmed_up = "True"]

InitIntercept ==
    /\ NoPure /\ NoApi
    /\ fetcher = WarmedUpFetcher /\ pending = {}
    /\ browser_log = <<>> /\ fetched = NoFetched

InterceptDailyTrends ==
    /\ fetched.n < MaxIntercepts
    /\ \E way \in BrowserWays(fetcher, "get_daily_trends", pending, FALSE) :
        DataOperation("get_daily_trends", <<>>, way)

InterceptInterestOverTime ==
    /\ fetched.n < MaxIntercepts
    /\ \E way \in BrowserWays(fetcher, "get_interest_over_time", pending, FALSE) :
        DataOperation("get_interest_over_time", Keywords(1), way)

InterceptRelatedQueries ==
    /\ fetched.n < MaxIntercepts
    /\ \E way \in BrowserWays(fetcher, "get_related_queries", pending, FALSE) :
        DataOperation("get_related_queries", <<>>, way)

InterceptInterestByRegion ==
    /\ fetched.n < MaxIntercepts
    /\ \E way \in BrowserWays(fetcher, "get_interest_by_region", pending, FALSE) :
        DataOperation("get_interest_by_region", <<>>, way)

NextIntercept ==
    \/ InterceptDailyTrends
    \/ InterceptInterestOverTime
    \/ InterceptRelatedQueries
    \/ InterceptInterestByRegion

SpecIntercept == InitIntercept /\ [][NextIntercept]_vars

\* C17: what a data operation returns was read from responses to its own
\* navigation only, never from a response to the navigation of an earlier
\* data operation, the callback of which may run after the later operation
\* has emptied the buckets.
C17_NoBucketOfEarlierOperationRead ==
    \A response \in fetched.read : response.op = fetched.n


----------------------------------------------------------------------------
(* The life of one Orchestrator: its calls, the changes of its settings    *)
(* and its close.                                                          *)

\* the Protocol Clients one Orchestrator builds
MaxClients == 2

\* the geo codes and the proxies its caller sets
GeoCodes == {"US", "GB"}
Proxies == {"None", "http://proxy:8080"}

\* the wire as a call that sends nothing leaves it for the next call
WireAfter ==
    [before EXCEPT !.sent_at = IF sent = <<>> THEN @ ELSE sent[Len(sent)].at]

\* what a call that is not a data operation leaves of the last data call
NotADataCall(op) ==
    /\ call' = [op |-> op, keywords |-> <<>>, resolution |-> ""]
    /\ sent' = <<>>
    /\ before' = WireAfter
    /\ outcome' = NoOutcome
    /\ result' = NoOutcome
    /\ UNCHANGED <<now, config, pending, fetched, pure_vars>>

\* TrendsAPI.set_geo: the geo of the Orchestrator's config and the geo of
\* the config of the client it holds are assigned
SetGeo ==
    \E geo \in GeoCodes :
        /\ api_client' = [api_client EXCEPT !.geo = geo]
        /\ fetcher_log' = <<>>
        /\ NotADataCall("set_geo")
        /\ UNCHANGED <<last_request_time, playwright_fetcher,
                       playwright_initialized, fetcher, browser_log, loop>>

\* TrendsAPI.set_proxy: the client is closed and a new GoogleTrendsClient
\* takes its place, built with the geo of the Orchestrator's config (which
\* set_geo keeps equal to the geo of the client's config) and the proxy
SetProxy ==
    \E proxy \in Proxies :
        /\ api_client.id < MaxClients
        /\ api_client' = [id |-> api_client.id + 1, geo |-> api_client.geo,
                          proxy |-> proxy, closed |-> FALSE]
        /\ last_request_time' = InitialLastRequestTime
        /\ fetcher_log' = <<>>
        /\ NotADataCall("set_proxy")
        /\ UNCHANGED <<playwright_fetcher, playwright_initialized,
                       fetcher, browser_log, loop>>

\* TrendsAPI.close: the condition under which it tears the Fetcher down
TearsDown(made, initialized) ==
    made # "None" /\ initialized

\* TrendsAPI.close: the client's connection is closed, then the Fetcher, if
\* there is one and its set-up completed, is torn down and forgotten
CloseEnds ==
    \E raising \in ReleaseFailures :
    \E torn \in {TearsDown(playwright_fetcher, playwright_initialized)} :
        /\ api_client' = [api_client EXCEPT !.closed = TRUE]
        /\ fetcher' = IF torn THEN Cleanup(fetcher, raising).f ELSE fetcher
        /\ playwright_fetcher' = IF torn THEN "None" ELSE playwright_fetcher
        /\ playwright_initialized' = IF torn THEN FALSE ELSE playwright_initialized
        /\ fetcher_log' = <<"_api_client.close">>
                            \o (IF torn THEN <<"_cleanup">> ELSE <<>>)
        /\ browser_log' = <<>>
        /\ NotADataCall("close")
        /\ UNCHANGED last_request_time

\* close, awaited on the event loop of its caller
Close ==
    /\ CloseEnds
    /\ UNCHANGED loop

NextLifecycle ==
    \/ ApiDailyTrends
    \/ ApiInterestByRegion
    \/ SetGeo
    \/ SetProxy
    \/ Close

\* an Orchestrator with the default policy, or with no fallback
InitLifecycle ==
    /\ Init
    /\ config.fallback_on_rate_limit /\ config.fallback_on_token_error

SpecLifecycle == InitLifecycle /\ [][NextLifecycle]_vars


C19_CloseLeavesNoBrowserResource ==
    call.op = "close" =>
        /\ api_client.closed
        /\ fetcher_log[1] = "_api_client.close"
        /\ result.error = ""
        /\ fetcher.page # "open" /\ fetcher.context # "open"
        /\ fetcher.browser # "open" /\ fetcher.playwright # "open"

\* C20: as long as the Orchestrator holds the same Protocol Client, the geo
\* and the proxy of that client are what they were when it was built;
\* set_geo and set_proxy put a new client in its place.
C20_ClientConfigNeverMutated ==
    [][/\ api_client'.id = api_client.id =>
            /\ api_client'.geo = api_client.geo
            /\ api_client'.proxy = api_client.proxy
       /\ call'.op \in {"set_geo", "set_proxy"} => api_client'.id # api_client.id]_vars


----------------------------------------------------------------------------
(* SpecRelated: the related queries of one related-searches response, as   *)
(* the direct path and as the automated path return them.                  *)

\* PlaywrightTrendsFetcher.get_related_queries: one item of a ranked list,
\* as the dict it appends
FetcherRelatedQuery(item) ==
    <<<<"query", DictGet(item, "query", "")>>,
      <<"value", DictGet(item, "value", 0)>>,
      <<"link", DictGet(item, "link", "")>>>>

\* the items of the ranked lists from the index first on, converted
FetcherRankedFrom(ranked_lists, first) ==
    LET items == Concat([i \in 1..(Len(ranked_lists) - first + 1) |->
                    DictGet(ranked_lists[i + first - 1], "rankedKeyword", <<>>)])
    IN  [i \in 1..Len(items) |-> FetcherRelatedQuery(items[i])]

\* PlaywrightTrendsFetcher.get_related_queries, from the bucket: the first
\* ranked list goes under "top", every other one under "rising"
FetcherRelatedFromBucket(data) ==
    LET ranked_lists == GetNested(data, "default", "rankedList")
    IN  <<<<"top", IF ranked_lists = <<>> THEN <<>>
                   ELSE FetcherRankedFrom(<<ranked_lists[1]>>, 1)>>,
          <<"rising", FetcherRankedFrom(ranked_lists, 2)>>>>

\* the rows of one list type that the page shows
RowsOfType(rows, list_type) ==
    SelectSeq(rows, LAMBDA row : row.list_type = list_type)

\* PlaywrightTrendsFetcher._scrape_related_queries: each row of the page
\* gives its query and, as value, the text of its last cell
ScrapeRelatedQueries(rows) ==
    [k \in 1..2 |->
        LET list_type == <<"top", "rising">>[k]
            of_type == RowsOfType(rows, list_type)
        IN  <<list_type,
              [i \in 1..Len(of_type) |->
                  <<<<"query", of_type[i].query>>, <<"value", of_type[i].text>>>>]>>]

\* PlaywrightTrendsFetcher.get_related_queries, once the page is loaded: the
\* bucket if it is there, the page if that gave no item
FetcherRelatedQueries(has_bucket, data, rows) ==
    LET from_bucket == IF has_bucket THEN FetcherRelatedFromBucket(data)
                       ELSE <<<<"top", <<>>>>, <<"rising", <<>>>>>>
    IN  IF from_bucket[1][2] = <<>> /\ from_bucket[2][2] = <<>>
        THEN ScrapeRelatedQueries(rows)
        ELSE from_bucket

\* TrendsAPI.related_queries_async: the records of the direct path
UnifiedFromApi(results) ==
    [k \in 1..Len(results) |->
        <<results[k][1],
          [q \in 1..Len(results[k][2]) |-> UnifiedRelatedQueryApi(results[k][2][q])]>>]

\* TrendsAPI._related_queries_playwright: the records of the automated path
UnifiedFromPlaywright(results) ==
    [k \in 1..Len(results) |->
        <<results[k][1],
          [q \in 1..Len(results[k][2]) |->
              UnifiedRelatedQueryPlaywright(results[k][2][q])]>>]

\* the items and the lists of one response
MaxRankedItems == 2
MaxRankedLists == 2

\* an item of the service: with a magnitude, or marked as a breakout
RankedKeywords ==
    {<<<<"query", "q1">>, <<"value", 100>>, <<"link", "/q1">>>>,
     <<<<"query", "q2">>, <<"value", 250>>, <<"formattedValue", "Breakout">>,
       <<"link", "/q2">>>>}

\* the related-searches responses tried
RelatedResponses ==
    {<<<<"default", <<<<"rankedList",
            [i \in 1..Len(lists) |-> <<<<"rankedKeyword", lists[i]>>>>]>>>>>>>> :
        lists \in SeqsUpTo(SeqsUpTo(RankedKeywords, MaxRankedItems), MaxRankedLists)}

\* what the page shows to the scraper: nothing, a magnitude, a growth, a
\* breakout
RelatedRows ==
    {<<>>,
     <<[list_type |-> "top", query |-> "q1", text |-> "100"]>>,
     <<[list_type |-> "top", query |-> "q1", text |-> "100"],
       [list_type |-> "rising", query |-> "q2", text |-> "+250%"]>>,
     <<[list_type |-> "rising", query |-> "q2", text |-> "Breakout"]>>}

InitRelated ==
    /\ NoEngine
    /\ arg \in [data : RelatedResponses, has_bucket : BOOLEAN, rows : RelatedRows]
    /\ ret = [done |-> FALSE, api |-> <<>>, playwright |-> <<>>]

\* the same response, answered to the client and intercepted by the Fetcher
RelateBoth ==
    /\ ~ret.done
    /\ ret' = [done |-> TRUE,
               api |-> UnifiedFromApi(RelatedQueryResults(arg.data)),
               playwright |-> UnifiedFromPlaywright(
                    FetcherRelatedQueries(arg.has_bucket, arg.data, arg.rows))]
    /\ UNCHANGED <<arg, engine_vars>>

SpecRelated == InitRelated /\ [][RelateBoth]_vars

\* the records of a result, "top" before "rising"
RecordsOf(results) ==
    Concat([k \in 1..Len(results) |-> results[k][2]])

\* the largest magnitude of a response
MaxMagnitude == 250

\* a value is the sentinel (a value is an int or a str: the two are told
\* apart by how they are written)
IsBreakout(value) ==
    ToString(value) = ToString("Breakout")

\* a value is a magnitude or the sentinel
MagnitudeOrBreakout(value) ==
    ToString(value) \in {ToString(n) : n \in 0..MaxMagnitude} \/ IsBreakout(value)

\* C21: every related-query record, of the direct path and of the automated
\* path (bucket or page), has a value that is an integer or "Breakout", and
\* an item that the response marks as Breakout has "Breakout" as its value
\* on both paths.
C21_ValueIsMagnitudeOrBreakout ==
    ret.done =>
        LET items == RankedItems(arg.data)
            api == RecordsOf(ret.api)
            playwright == RecordsOf(ret.playwright)
        IN  /\ \A i \in 1..Len(api) : MagnitudeOrBreakout(api[i].value)
            /\ \A i \in 1..Len(playwright) : MagnitudeOrBreakout(playwright[i].value)
            /\ \A i \in 1..Len(items) :
                DictGet(items[i], "formattedValue", "") = "Breakout" =>
                    /\ IsBreakout(api[i].value)
                    /\ arg.has_bucket => IsBreakout(playwright[i].value)

\* the items of the i-th ranked list of the response
RankedList(i) ==
    DictGet(GetNested(arg.data, "default", "rankedList")[i], "rankedKeyword", <<>>)

\* the queries of the records under a list type
QueriesUnder(results, k) ==
    [i \in 1..Len(results[k][2]) |-> results[k][2][i].query]

\* the queries of the items of a ranked list
QueriesOf(items) ==
    [i \in 1..Len(items) |-> DictGet(items[i], "query", "")]

\* C29: for a response with two ranked lists, both non-empty, the direct
\* path returns the items of the first under "top" and those of the second
\* under "rising", and the automated path, for the same data, returns the
\* same partition.
C29_FirstListTopSecondRising ==
    /\ ret.done /\ arg.has_bucket
    /\ Len(GetNested(arg.data, "default", "rankedList")) = 2
    /\ RankedList(1) # <<>> /\ RankedList(2) # <<>>
    => /\ QueriesUnder(ret.api, 1) = QueriesOf(RankedList(1))
       /\ QueriesUnder(ret.api, 2) = QueriesOf(RankedList(2))
       /\ QueriesUnder(ret.playwright, 1) = QueriesUnder(ret.api, 1)
       /\ QueriesUnder(ret.playwright, 2) = QueriesUnder(ret.api, 2)


\* C22: every record that a data operation of the Orchestrator returns has
\* a source tag: "api" when the Protocol Client produced the records,
\* "playwright" when the Fetcher did, the same for all records of the call.
C22_EveryRecordTagged ==
    call.op \in DataOperations /\ result.error = "" =>
        IF FetcherOperations = <<>> THEN AllTagged("api")
        ELSE AllTagged("playwright")

\* C23: in every operation of the Orchestrator, realtime trends and
\* autocomplete included, an error of the Protocol Client reaches the
\* caller as an error unless the Fetcher was invoked in its place: the call
\* never returns a value when the client raised and no Fetcher ran.
C23_UnrecoveredErrorPropagates ==
    outcome.error # "" /\ FetcherOperations = <<>> => result.error # ""


\* C27: when the client raises TokenError inside a data operation of an
\* Orchestrator whose fallback is enabled and whose fallback_on_token_error
\* is false, the TokenError is raised to the caller and the fetcher is
\* neither constructed nor invoked; a fetcher is invoked for RateLimitError
\* or TokenError only when the flag of that kind is true.
C27_TokenErrorFallbackByFlag ==
    (call.op \in DataOperations /\ config.use_fallback) =>
        /\ (outcome.error = "TokenError" /\ ~config.fallback_on_token_error)
               => result.error = "TokenError" /\ fetcher_log = <<>>
        /\ (outcome.error = "RateLimitError" /\ fetcher_log # <<>>)
               => config.fallback_on_rate_limit

\* the configuration a TrendsAPIConfig() holds: every flag true
DefaultConfig ==
    [use_fallback |-> TRUE, fallback_on_rate_limit |-> TRUE,
     fallback_on_token_error |-> TRUE]

\* C28: interest over time with more than five keywords under the default
\* configuration ends for the caller in InvalidRequestError; no request is
\* sent, no fetcher is constructed and no browser is launched.
C28_OverLimitRaisesWithoutFetcher ==
    (call.op = "interest_over_time" /\ Len(call.keywords) > KeywordLimit
        /\ config = DefaultConfig) =>
        /\ result.error = "InvalidRequestError"
        /\ sent = <<>>
        /\ fetcher_log = <<>>
        /\ browser_log = <<>>


----------------------------------------------------------------------------
(* The fallback switch of the Orchestrator (SpecPolicy): data operations   *)
(* with enable_fallback between them.                                       *)

\* TrendsAPI.enable_fallback
EnableFallback ==
    \E enable \in BOOLEAN :
        /\ config' = [config EXCEPT !.use_fallback = enable]
        /\ call' = [op |-> "enable_fallback", keywords |-> <<>>,
                    resolution |-> ""]
        /\ sent' = <<>>
        /\ before' = WireAfter
        /\ outcome' = NoOutcome
        /\ result' = NoOutcome
        /\ fetcher_log' = <<>>
        /\ UNCHANGED <<now, last_request_time, api_client, loop,
                       playwright_fetcher, playwright_initialized, fetcher,
                       browser_log, pending, fetched, pure_vars>>

NextPolicy ==
    \/ ApiDailyTrends
    \/ ApiInterestOverTime
    \/ ApiRelatedQueries
    \/ ApiInterestByRegion
    \/ EnableFallback

SpecPolicy == Init /\ [][NextPolicy]_vars

\* C26: a data operation of an Orchestrator whose use_fallback is false at
\* the call, by its configuration or by enable_fallback(False), constructs
\* no fetcher, and an exception of the client reaches the caller as that
\* exception, whatever fallback_on_rate_limit and fallback_on_token_error.
C26_NoFallbackWhileSwitchedOff ==
    (call.op \in DataOperations /\ ~config.use_fallback) =>
        /\ fetcher_log = <<>>
        /\ outcome.error # "" => result.error = outcome.error

\* C26 (witness): after a fallback that made a fetcher, the fallback is
\* switched off with a per-kind flag still true, and a RateLimitError of
\* the client reaches the caller.
C26_WitnessSwitchedOffAfterFallback ==
    /\ call.op \in DataOperations /\ ~config.use_fallback
    /\ config.fallback_on_rate_limit
    /\ browser_log # <<>>
    /\ outcome.error = "RateLimitError" /\ result.error = "RateLimitError"


----------------------------------------------------------------------------
(* Claims on the navigation of the Fetcher's data operations (SpecFetcher). *)

\* the four data operations of the Fetcher
FetcherDataOperations ==
    {"get_daily_trends", "get_interest_over_time", "get_related_queries",
     "get_interest_by_region"}

\* the last call is a data operation that tried to open its target page
\* and every attempt raised
NavigationExhausted ==
    /\ fetched.op \in FetcherDataOperations
    /\ Positions(fetched.log, "goto.raised") # {}
    /\ Positions(fetched.log, "goto") = {}

\* C24: a data operation of the Fetcher in which every attempt to open the
\* target page failed raises NavigationError and returns no result.
C24_NavigationExhaustionRaises ==
    NavigationExhausted =>
        fetched.error = "NavigationError" /\ fetched.value = ""


----------------------------------------------------------------------------
(* The bridge script (SpecBridge): one invocation of trends_bridge.py with *)
(* a recognized command and its required arguments.                         *)

\* the commands of main
BridgeCommands ==
    {"daily_trends", "interest_over_time", "related_queries"}

\* the operation of the Fetcher a command calls
BridgeOperation(command) ==
    CASE command = "daily_trends" -> "get_daily_trends"
      [] command = "interest_over_time" -> "get_interest_over_time"
      [] OTHER -> "get_related_queries"

\* the keywords of --keywords (one, or one too many for the Fetcher)
BridgeKeywords(command) ==
    IF command = "interest_over_time" THEN FetcherKeywords ELSE {<<>>}

\* output_json: one JSON object written to stdout
OutputJson(success, data, error) ==
    [success |-> success, data |-> data, error |-> error]

\* fetch_daily_trends, fetch_interest_over_time, fetch_related_queries:
\* async with PlaywrightTrendsFetcher(config) as fetcher, and in its body
\* the operation in a try block that writes the data, or the error.
\* __aenter__ is _setup; when it raises the body does not run and __aexit__
\* is not called. The invocation ends with what it wrote, the exception
\* that left it, and the Fetcher as it is then.
BridgeFetch(command, keywords, fail_at, way, raising) ==
    LET up == Setup(NewFetcher, fail_at)
        r == CASE command = "daily_trends" -> FetchDailyTrends(up.f, 1, way)
               [] command = "interest_over_time" ->
                    FetchInterestOverTime(up.f, 1, keywords, way)
               [] OTHER -> FetchRelatedQueries(up.f, 1, way)
        down == Cleanup(r.f, raising)
    IN  IF up.error # ""
        THEN [done |-> TRUE, stdout |-> <<>>, error |-> up.error,
              fetcher |-> up.f, log |-> up.log]
        ELSE [done |-> TRUE,
              stdout |-> <<IF r.error = ""
                           THEN OutputJson(TRUE, r.value, "")
                           ELSE OutputJson(FALSE, "", r.error)>>,
              error |-> down.error,
              fetcher |-> down.f,
              log |-> up.log \o r.log \o down.log]

\* the invocations: the command, where _setup raises if it does, what the
\* browser does to the operation, the releases that raise in the teardown
BridgeInvocations ==
    UNION {[command : {command},
            keywords : BridgeKeywords(command),
            fail_at : SetupFailures,
            way : BrowserWays(Setup(NewFetcher, "none").f,
                              BridgeOperation(command), {}, TRUE),
            raising : ReleaseFailures] : command \in BridgeCommands}

InitBridge ==
    /\ NoEngine
    /\ arg \in BridgeInvocations
    /\ ret = [done |-> FALSE, stdout |-> <<>>, error |-> "",
              fetcher |-> NewFetcher, log |-> <<>>]

\* main, for a recognized command with its required arguments
BridgeMain ==
    /\ ~ret.done
    /\ ret' = BridgeFetch(arg.command, arg.keywords, arg.fail_at, arg.way,
                          arg.raising)
    /\ UNCHANGED <<arg, engine_vars>>

SpecBridge == InitBridge /\ [][BridgeMain]_vars

\* the Fetcher holds a driver, a browser, a context or a page
HoldsBrowserResource(f) ==
    f.playwright # "None" \/ f.browser # "None" \/ f.context # "None"
        \/ f.page # "None"

\* C25: an invocation of the bridge script with a recognized command and
\* its required arguments writes exactly one JSON object, with a boolean
\* success field, to stdout - when the fetch succeeds, when the data
\* operation fails and when the browser session cannot be set up - and the
\* browser session it opened is torn down before the invocation ends.
C25_OneJsonObjectAndTeardown ==
    ret.done =>
        /\ Len(ret.stdout) = 1
        /\ ret.stdout[1].success \in BOOLEAN
        /\ ~HoldsBrowserResource(ret.fetcher)


----------------------------------------------------------------------------
(* The response callback of the Fetcher (SpecHandle): _handle_response     *)
(* applied to one response, on buckets that an earlier response filled.    *)

\* the two endpoint families _handle_response looks for in a URL
ApiFamily == "trends.google.com/trends/api"
RpcFamily == "/_/TrendsUi/data/batchexecute"

\* the endpoints of the first family, in the order of the elif chain
JsonEndpoints ==
    <<"dailytrends", "realtimetrends", "multiline", "relatedsearches",
      "comparedgeo", "explore">>

\* the endpoint names one URL holds at most
MaxEndpointsInUrl == 2

\* a URL is the set of these substrings that occur in it
HandleUrls ==
    {families \cup endpoints :
        families \in SUBSET {ApiFamily, RpcFamily},
        endpoints \in {e \in SUBSET {JsonEndpoints[i] : i \in 1..Len(JsonEndpoints)} :
                          Cardinality(e) <= MaxEndpointsInUrl}}

\* the bodies: a document after the prefix, a bare document, a text that
\* is no JSON, a document after the prefix variant the Fetcher leaves
HandleBodies ==
    {PrefixQuoteNewline \o <<"DOC_DAILY">>, <<"DOC_MULTILINE">>, <<"x">>,
     PrefixNewline \o <<"DOC_DAILY">>}

\* a response: response.text() returns the body, or raises
HandleResponsesMet ==
    [url : HandleUrls, body : HandleBodies, readable : BOOLEAN]

\* the bucket of the last endpoint name found in the URL
InterceptResponseByLastMatch(data, response) ==
    LET matching == {i \in 1..Len(JsonEndpoints) :
                        JsonEndpoints[i] \in response.url}
        parsed == JsonLoads(FetcherStrip(response.body))
    IN  IF ApiFamily \in response.url /\ response.readable
            /\ matching # {} /\ parsed.ok
        THEN DictSet(data,
                     JsonEndpoints[CHOOSE i \in matching :
                                      \A j \in matching : j <= i],
                     parsed.value)
        ELSE data

\* PlaywrightTrendsFetcher._handle_response, on the dict of buckets
InterceptResponse(data, response) ==
    LET matching == {i \in 1..Len(JsonEndpoints) :
                        JsonEndpoints[i] \in response.url}
        parsed == JsonLoads(FetcherStrip(response.body))
    IN  IF ApiFamily \in response.url
        THEN IF ~response.readable \/ matching = {} \/ ~parsed.ok
             THEN data
             ELSE DictSet(data, JsonEndpoints[Min(matching)], parsed.value)
        ELSE IF RpcFamily \in response.url
        THEN IF ~response.readable THEN data
             ELSE DictSet(data, "batchexecute",
                          Append(DictGet(data, "batchexecute", <<>>),
                                 response.body))
        ELSE data

\* the buckets an earlier response leaves, after a clear
BucketsMet ==
    {InterceptResponse(<<>>, response) : response \in HandleResponsesMet}

InitHandle ==
    /\ NoEngine
    /\ arg \in [data : BucketsMet, response : HandleResponsesMet]
    /\ ret = [done |-> FALSE, data |-> <<>>]

\* the callback runs for the response
HandleStep ==
    /\ ~ret.done
    /\ ret' = [done |-> TRUE, data |-> InterceptResponse(arg.data, arg.response)]
    /\ UNCHANGED <<arg, engine_vars>>

SpecHandle == InitHandle /\ [][HandleStep]_vars

\* the names of all buckets
AllBuckets ==
    {JsonEndpoints[i] : i \in 1..Len(JsonEndpoints)} \cup {"batchexecute"}

\* a bucket is the same in two dicts: absent in both, or the same content
SameBucket(earlier, later, bucket) ==
    IF DictHas(earlier, bucket) /\ DictHas(later, bucket)
    THEN ToString(DictAt(earlier, bucket)) = ToString(DictAt(later, bucket))
    ELSE DictHas(earlier, bucket) = DictHas(later, bucket)

\* the buckets the callback changed
ChangedBuckets ==
    {bucket \in AllBuckets : ~SameBucket(arg.data, ret.data, bucket)}

\* the bucket of a URL: of the first family, the first endpoint name in
\* the fixed order that occurs in the URL; of the second, the RPC bucket;
\* "" when the URL matches none
ChosenBucket(url) ==
    IF ApiFamily \in url
    THEN IF \E i \in 1..Len(JsonEndpoints) : JsonEndpoints[i] \in url
         THEN JsonEndpoints[CHOOSE i \in 1..Len(JsonEndpoints) :
                    /\ JsonEndpoints[i] \in url
                    /\ \A j \in 1..(i - 1) : JsonEndpoints[j] \notin url]
         ELSE ""
    ELSE IF RpcFamily \in url THEN "batchexecute"
    ELSE ""

\* the body of the response is JSON once the Fetcher has stripped it
ParsesAsJson(response) ==
    JsonLoads(FetcherStrip(response.body)).ok

----------------------------------------------------------------------------
(* The warmup inside a data operation (SpecWarmup): a Fetcher just set up, *)
(* whose warmup may intercept a data response of the listing page.         *)

\* the calls of one behaviour
MaxWarmups == 1

InitWarmup ==
    /\ NoPure /\ NoApi
    /\ fetcher = Setup(NewFetcher, "none").f
    /\ pending = {} /\ browser_log = <<>> /\ fetched = NoFetched

WarmupInterestOverTime ==
    /\ fetched.n < MaxWarmups
    /\ \E way \in BrowserWays(fetcher, "get_interest_over_time", {}, FALSE) :
        DataOperation("get_interest_over_time", Keywords(1), way)

WarmupRelatedQueries ==
    /\ fetched.n < MaxWarmups
    /\ \E way \in BrowserWays(fetcher, "get_related_queries", {}, FALSE) :
        DataOperation("get_related_queries", <<>>, way)

NextWarmup ==
    \/ WarmupInterestOverTime
    \/ WarmupRelatedQueries

SpecWarmup == InitWarmup /\ [][NextWarmup]_vars

\* C31: what interest over time and related queries of the Fetcher return
\* was read from no response that the warmup of the operation intercepted,
\* whether the navigation to the page of the keyword succeeds or not.
C31_NoWarmupResponseReturned ==
    fetched.op \in {"get_interest_over_time", "get_related_queries"} =>
        \A response \in fetched.read : response.op # 0


----------------------------------------------------------------------------
(* Claims on a set-up of the Fetcher that raised (SpecLifecycle).          *)

\* C33: after a set-up of the Fetcher raised during a fallback, no data
\* operation is delegated to a Fetcher whose set-up did not complete (a
\* later fallback sets up again, or ends with the error of the set-up),
\* and a close of the Orchestrator releases what the set-up had acquired.
C33_NoOperationOnFetcherNotSetUp ==
    /\ (call.op \in DataOperations /\ FetcherOperations # <<>>)
          => playwright_initialized
    /\ call.op = "close" => ~HoldsBrowserResource(fetcher)


----------------------------------------------------------------------------
(* Claims on the states of the Fetcher (SpecFetcher).                      *)

\* the Fetcher a call found had never been set up, or had been torn down
NotLaunched(f) ==
    f.page = "None"

\* C34: a data operation of the Fetcher returns a result only on a Fetcher
\* that is set up: called before the set-up or after the teardown, every
\* data operation ends with an error and returns nothing, an empty result
\* included.
C34_NoResultOutsideLaunchedStates ==
    (fetched.op \in FetcherDataOperations /\ NotLaunched(fetched.found))
        => fetched.error # ""


----------------------------------------------------------------------------
(* Claims on the requests of one Orchestrator over its life (SpecLifecycle). *)

\* C35: over the life of one Orchestrator, set_proxy calls that replace the
\* Protocol Client included, a request of the direct path is sent no less
\* than the floor interval after the request sent before it.
C35_FloorAcrossClients ==
    /\ \A i \in 1..(Len(sent) - 1) :
          sent[i + 1].at - sent[i].at >= MinRequestInterval
    /\ (sent # <<>> /\ before.sent_at # -1) =>
          sent[1].at - before.sent_at >= MinRequestInterval


----------------------------------------------------------------------------
(* The synchronous forms of the Orchestrator (SpecSync): each is           *)
(* asyncio.run of the asynchronous form, on an event loop of its own that  *)
(* is closed when the call returns.                                        *)

\* asyncio.run around a call that ended as done: a Fetcher the call made is
\* set up and used on the loop of the call; a Fetcher made by an earlier
\* call is used while the loop that owns it is as that call left it; the
\* loop of this call is closed at its end
RunOnNewLoop(done) ==
    [tasks |-> <<>>,
     owner |-> IF done.api.playwright_fetcher = "None" THEN "none"
               ELSE "closed",
     used |-> IF done.api.fetcher_log = <<>> THEN "none"
              ELSE IF playwright_fetcher = "None" THEN "live"
              ELSE loop.owner]

\* TrendsAPI.daily_trends
SyncDailyTrends ==
    /\ CanSend
    /\ \E response \in ApiResponses({"DOC_DAILY"} \cup ListDocuments) :
       \E r \in {GetDailyTrends(Client, response)} :
       \E run \in FetcherRuns(Falls(r), "get_daily_trends", <<>>) :
       \E done \in {DailyTrendsAsync(r, run)} :
          /\ ClientAfter("daily_trends", <<>>, "", r)
          /\ ApiEnds(done)
          /\ loop' = RunOnNewLoop(done)

\* TrendsAPI.close_sync: the teardown runs on the loop of this call
CloseSync ==
    /\ CloseEnds
    /\ loop' = IF TearsDown(playwright_fetcher, playwright_initialized)
               THEN [tasks |-> <<>>, owner |-> "none", used |-> loop.owner]
               ELSE [loop EXCEPT !.used = "none"]

NextSync ==
    \/ SyncDailyTrends
    \/ CloseSync

SpecSync == InitLifecycle /\ [][NextSync]_vars

\* C36: a Fetcher set up during a synchronous call is used only while the
\* event loop on which it was set up is running: no later synchronous call
\* that falls back, and no close_sync, uses it after that loop was closed.
C36_FetcherUsedOnItsLiveLoop ==
    loop.used # "closed"


----------------------------------------------------------------------------
(* Two asynchronous operations on one event loop (SpecConcurrent): both    *)
(* have fallen back; each runs from one await to the next.                 *)

\* the operations of the Fetcher the two coroutines fall back to
ConcurrentOperations ==
    {"get_daily_trends", "get_related_queries"}

\* a coroutine that has caught the error of the client and is about to
\* await _get_playwright_fetcher
FallenBack(op) ==
    [op |-> op, pc |-> "_get_playwright_fetcher", steps |-> 0,
     early |-> FALSE, error |-> "", value |-> ""]

InitConcurrent ==
    /\ NoPure /\ NoBrowser
    /\ now = 0 /\ last_request_time = 0 /\ sent = <<>>
    /\ call = NoCall /\ before = [last_request_time |-> 0, sent_at |-> -1]
    /\ outcome = NoOutcome
    /\ config = DefaultConfig
    /\ api_client = NewApiClient
    /\ playwright_fetcher = "None" /\ playwright_initialized = FALSE
    /\ fetcher_log = <<>> /\ result = NoOutcome
    /\ \E first, second \in ConcurrentOperations :
          loop = [NoLoop EXCEPT
                    !.tasks = <<FallenBack(first), FallenBack(second)>>]

\* what no step of a coroutine of the fallback touches
ConcurrentFrame ==
    UNCHANGED <<client_vars, config, api_client, fetcher_log, result,
                pending, fetched, pure_vars>>

\* _get_playwright_fetcher up to its first await: with no Fetcher, one is
\* constructed and assigned and _setup is awaited; with one, it is
\* returned as it is
TaskGetsFetcher ==
    \E i \in 1..Len(loop.tasks) :
        /\ loop.tasks[i].pc = "_get_playwright_fetcher"
        /\ IF playwright_fetcher = "None"
           THEN /\ playwright_fetcher' = "PlaywrightTrendsFetcher"
                /\ fetcher' = NewFetcher
                /\ browser_log' = browser_log \o <<"__init__", "_setup">>
                /\ loop' = [loop EXCEPT !.tasks[i].pc = "_setup"]
           ELSE /\ loop' = [loop EXCEPT !.tasks[i].pc = "operation"]
                /\ UNCHANGED <<playwright_fetcher, fetcher, browser_log>>
        /\ UNCHANGED playwright_initialized
        /\ ConcurrentFrame

\* one await of _setup returns, or raises; after the last one the flag of
\* the Orchestrator is set and the coroutine goes on to its operation
TaskSetsUp ==
    \E i \in 1..Len(loop.tasks) :
    \E raises \in BOOLEAN :
        /\ loop.tasks[i].pc = "_setup"
        /\ LET steps == loop.tasks[i].steps + 1
               last == steps = Len(SetupSteps)
           IN  IF raises
               THEN /\ loop' = [loop EXCEPT !.tasks[i].pc = "raised",
                                            !.tasks[i].error = "PlaywrightError"]
                    /\ UNCHANGED <<fetcher, playwright_initialized>>
               ELSE /\ fetcher' = Setup(NewFetcher,
                                        IF last THEN "none"
                                        ELSE SetupSteps[steps + 1]).f
                    /\ playwright_initialized' = last
                    /\ loop' = [loop EXCEPT
                                  !.tasks[i].steps = steps,
                                  !.tasks[i].pc = IF last THEN "operation"
                                                  ELSE "_setup"]
        /\ UNCHANGED <<playwright_fetcher, browser_log>>
        /\ ConcurrentFrame

\* the operation of the Fetcher, on the Fetcher as it is now
TaskOperates ==
    \E i \in 1..Len(loop.tasks) :
        /\ loop.tasks[i].pc = "operation"
        /\ \E way \in BrowserWays(fetcher, loop.tasks[i].op, {}, TRUE) :
           \E r \in {IF loop.tasks[i].op = "get_daily_trends"
                     THEN FetchDailyTrends(fetcher, i, way)
                     ELSE FetchRelatedQueries(fetcher, i, way)} :
              /\ fetcher' = r.f
              /\ loop' = [loop EXCEPT
                            !.tasks[i].pc = "done",
                            !.tasks[i].early = ~playwright_initialized,
                            !.tasks[i].error = r.error,
                            !.tasks[i].value = r.value]
        /\ UNCHANGED <<playwright_fetcher, playwright_initialized, browser_log>>
        /\ ConcurrentFrame

NextConcurrent ==
    \/ TaskGetsFetcher
    \/ TaskSetsUp
    \/ TaskOperates

SpecConcurrent == InitConcurrent /\ [][NextConcurrent]_vars

\* C32: when two asynchronous operations on one event loop both fall back,
\* the set-up of the Fetcher runs exactly once, and neither operation uses
\* the Fetcher before that set-up has completed.
C32_OneSetupBeforeAnyUse ==
    /\ (\E i \in 1..Len(loop.tasks) :
            loop.tasks[i].pc # "_get_playwright_fetcher")
          => Cardinality(Positions(browser_log, "_setup")) = 1
    /\ \A i \in 1..Len(loop.tasks) : ~loop.tasks[i].early

=============================================================================
